---- MODULE Spec2Model ----
(***************************************************************************)
(* Verification model of the Argon2 / AES-CBC / HMAC envelope encryption   *)
(* of src/src/crypto (CryptoUtil, CryptoService, EncryptionHandler).       *)
(*                                                                         *)
(* Strings are sequences of one-character strings, so that trim, split,    *)
(* JSON serialisation and Base64 are computed character by character.      *)
(*                                                                         *)
(* Library behaviour the code relies on (package versions from             *)
(* package.json: argon2 ^0.41.1, crypto-js ^4.2.0):                        *)
(*  - argon2.hash(password, options) without `raw: true` resolves to the   *)
(*    PHC-encoded digest string "$argon2id$v=19$m=..,t=..,p=..$salt$hash", *)
(*    not to the raw hash bytes.                                           *)
(*  - CryptoJS.enc.Base64.parse(str) cuts str at the first "=" (padding    *)
(*    character), then decodes; a character outside the Base64 alphabet    *)
(*    has no entry in the reverse map and contributes zero bits.           *)
(*  - CryptoJS.enc.Base64.stringify and Buffer.toString("base64") are      *)
(*    standard padded Base64.                                              *)
(*  - HMAC-SHA256 and AES are abstracted: the MAC is an injective          *)
(*    function of (message, key) and AES is a keyed byte permutation       *)
(*    chained in CBC fashion with PKCS#7 padding on one-byte blocks.       *)
(***************************************************************************)
EXTENDS Integers, Sequences, FiniteSets, TLC

VARIABLES issued, dec, files, call, handler, log, store, ops, writer, gen

\* the variables of the record and file transforms, and those of the base
\* file store and of the random generators
cryptoVars == <<issued, dec, files, call, handler, log>>
storeVars == <<store, ops, writer, gen>>

vars == <<issued, dec, files, call, handler, log, store, ops, writer, gen>>

(***************************************************************************)
(* Bounds of the model.                                                    *)
(***************************************************************************)
\* number of encryptEnvironmentVariables calls in one behaviour
MaxCalls == 1

\* number of store operations in one behaviour
MaxOps == 2

\* number of generator calls in one behaviour
MaxGenCalls == 2

\* number of failing key derivations in one behaviour
MaxKdfFaults == 1

(***************************************************************************)
(* Configured lengths.                                                     *)
(***************************************************************************)
\* cryptoConfig.PARAMETER_LENGTHS.SALT_LENGTH and IV_LENGTH, the default
\* lengths of generateSalt and generateIvAsBase64.  crypto-config.json is
\* not among the sources; the lengths are scaled to the one-byte block of
\* the cipher below.
SaltLength == 1
IvLength == 1

\* cryptoConfig.PARAMETER_LENGTHS.SECRET_KEY_LENGTH, the default length of
\* generateSecretKey, scaled likewise
SecretKeyLength == 1

(***************************************************************************)
(* Characters and bytes.                                                   *)
(***************************************************************************)
\* printable ASCII, code 32 .. 126 (the grave accent, code 96, is written GRAVE)
Ascii ==
  <<" ", "!", "\"", "#", "$", "%", "&", "'", "(", ")", "*", "+", ",", "-",
    ".", "/", "0", "1", "2", "3", "4", "5", "6", "7", "8", "9", ":", ";",
    "<", "=", ">", "?", "@", "A", "B", "C", "D", "E", "F", "G", "H", "I",
    "J", "K", "L", "M", "N", "O", "P", "Q", "R", "S", "T", "U", "V", "W",
    "X", "Y", "Z", "[", "\\", "]", "^", "_", "GRAVE", "a", "b", "c", "d", "e",
    "f", "g", "h", "i", "j", "k", "l", "m", "n", "o", "p", "q", "r", "s",
    "t", "u", "v", "w", "x", "y", "z", "{", "|", "}", "~">>

\* the Base64 alphabet of crypto-js (enc-base64.js, _map) and of Node
B64Map ==
  <<"A", "B", "C", "D", "E", "F", "G", "H", "I", "J", "K", "L", "M", "N",
    "O", "P", "Q", "R", "S", "T", "U", "V", "W", "X", "Y", "Z", "a", "b",
    "c", "d", "e", "f", "g", "h", "i", "j", "k", "l", "m", "n", "o", "p",
    "q", "r", "s", "t", "u", "v", "w", "x", "y", "z", "0", "1", "2", "3",
    "4", "5", "6", "7", "8", "9", "+", "/">>

Pow2(n) == 2 ^ n

\* position (1-based) of the first occurrence of c in s, 0 when absent
IndexOf(s, c) ==
  IF \E i \in 1..Len(s) : s[i] = c
  THEN CHOOSE i \in 1..Len(s) : s[i] = c /\ \A j \in 1..(i - 1) : s[j] # c
  ELSE 0

Includes(s, c) == IndexOf(s, c) # 0

\* UTF-8 code of a character of the model's alphabet
CharCode(c) ==
  IF c = "\n" THEN 10 ELSE IF c = "\t" THEN 9 ELSE IF c = "\r" THEN 13
  ELSE 31 + IndexOf(Ascii, c)

\* CryptoJS.enc.Utf8.parse
Utf8Parse(s) == [i \in 1..Len(s) |-> CharCode(s[i])]

\* CryptoJS.enc.Utf8.stringify: fails with "Malformed UTF-8 data" on bytes
\* that are no UTF-8 text
Utf8Stringify(bytes) ==
  IF \A i \in 1..Len(bytes) : bytes[i] \in 32..126
  THEN [ok |-> TRUE, str |-> [i \in 1..Len(bytes) |-> Ascii[bytes[i] - 31]]]
  ELSE [ok |-> FALSE, str |-> <<>>]

RECURSIVE SumSeq(_)
SumSeq(s) == IF s = <<>> THEN 0 ELSE Head(s) + SumSeq(Tail(s))

RECURSIVE Flatten(_)
Flatten(ss) == IF ss = <<>> THEN <<>> ELSE Head(ss) \o Flatten(Tail(ss))

(***************************************************************************)
(* Base64.                                                                 *)
(***************************************************************************)
\* reverseMap[charCode]: undefined for a character outside the alphabet,
\* which the shifts of parseLoop turn into 0
ReverseMap(c) == IF Includes(B64Map, c) THEN IndexOf(B64Map, c) - 1 ELSE 0

\* one byte of parseLoop, for the 0-based index i with i % 4 # 0
ParseLoopByte(s, i) ==
  LET bits1 == ReverseMap(s[i]) * Pow2((i % 4) * 2)
      bits2 == ReverseMap(s[i + 1]) \div Pow2(6 - (i % 4) * 2)
  IN  (bits1 + bits2) % 256

\* CryptoJS.enc.Base64.parse: the input is cut at the first padding
\* character, wherever it stands
Base64Parse(s) ==
  LET paddingIndex == IndexOf(s, "=")
      n == IF paddingIndex # 0 THEN paddingIndex - 1 ELSE Len(s)
      idx == SelectSeq([i \in 1..n |-> i - 1], LAMBDA i : i % 4 # 0)
  IN  [k \in 1..Len(idx) |-> ParseLoopByte(s, idx[k])]

ByteAt(bytes, i) == IF i <= Len(bytes) THEN bytes[i] ELSE 0

\* the Base64 characters of the three bytes starting at 1-based index i
B64Group(bytes, i) ==
  LET triplet == ByteAt(bytes, i) * 65536 + ByteAt(bytes, i + 1) * 256
                   + ByteAt(bytes, i + 2)
      avail == Len(bytes) - i + 1
      nchars == IF avail >= 3 THEN 4 ELSE avail + 1
  IN  [j \in 1..4 |->
         IF j <= nchars
         THEN B64Map[((triplet \div Pow2(6 * (4 - j))) % 64) + 1]
         ELSE "="]

\* CryptoJS.enc.Base64.stringify / Buffer.toString("base64")
Base64Stringify(bytes) ==
  Flatten([g \in 1..((Len(bytes) + 2) \div 3) |-> B64Group(bytes, 3 * g - 2)])

\* Base64 without padding, as the PHC string format uses it
Base64NoPad(bytes) ==
  SelectSeq(Base64Stringify(bytes), LAMBDA c : c # "=")

(***************************************************************************)
(* Random source.                                                          *)
(***************************************************************************)
\* byte values crypto.randomBytes may return in the model
RandByte == {7, 200}

\* crypto.randomBytes(length): any byte string of that length
randomBytes(length) == [1..length -> RandByte]

\* the result of a generator: the value returned or the error thrown, and
\* whether crypto.randomBytes was called on the way
GenOk(str, bytes) ==
  [ok |-> TRUE, err |-> "", str |-> str, bytes |-> bytes, drew |-> TRUE]

GenFail(err, drew) ==
  [ok |-> FALSE, err |-> err, str |-> <<>>, bytes |-> <<>>, drew |-> drew]

\* generateSalt as it would be without the check of its length
generateSalt_NoLengthCheck(length, rnd) == GenOk(Base64Stringify(rnd), <<>>)

\* CryptoUtil.generateSalt(length), rnd being the bytes the random source
\* returns
generateSalt(length, rnd) ==
  IF length <= 0
  THEN GenFail("Salt length must be greater than zero.", FALSE)
  ELSE GenOk(Base64Stringify(rnd), <<>>)

\* CryptoUtil.generateIvAsBase64(length)
generateIvAsBase64(length, rnd) ==
  IF length <= 0
  THEN GenFail("IV length must be greater than zero.", FALSE)
  ELSE GenOk(Base64Stringify(rnd), <<>>)

\* CryptoUtil.generateIvAsBuffer(length)
generateIvAsBuffer(length, rnd) ==
  IF length <= 0
  THEN GenFail("IV length must be greater than zero.", FALSE)
  ELSE GenOk(<<>>, rnd)

\* CryptoUtil.generateSecretKey(length): no check of its own;
\* crypto.randomBytes throws a RangeError for a negative size
generateSecretKey(length, rnd) ==
  IF length < 0
  THEN GenFail("RangeError", TRUE)
  ELSE GenOk(Base64Stringify(rnd), <<>>)

(***************************************************************************)
(* Key derivation.                                                         *)
(***************************************************************************)
\* Buffer.from(salt, "base64")
BufferFromBase64(s) == Base64Parse(s)

\* the raw Argon2id digest, abstracted as an injective function of the
\* password and the salt
Argon2Digest(secretKey, saltBytes) == Utf8Parse(secretKey) \o saltBytes

\* "$argon2id$v=19$m=131072,t=3,p=1$": algorithm, version and cost
\* parameters of the PHC string (memory cost 2^17, ConstantsConfig)
PhcHeader ==
  <<"$", "a", "r", "g", "o", "n", "2", "i", "d", "$", "v", "=", "1", "9",
    "$", "m", "=", "1", "3", "1", "0", "7", "2", ",", "t", "=", "3", ",",
    "p", "=", "1", "$">>

\* argon2.hash(secretKey, options): options carries no `raw: true`, so the
\* promise resolves to the PHC-encoded string
Argon2Hash(secretKey, saltBytes) ==
  PhcHeader \o Base64NoPad(saltBytes) \o <<"$">>
    \o Base64NoPad(Argon2Digest(secretKey, saltBytes))

\* CryptoUtil.deriveKeyWithArgon2: CryptoJS.enc.Base64.parse(derivedKey)
deriveKeyWithArgon2(secretKey, salt) ==
  Base64Parse(Argon2Hash(secretKey, BufferFromBase64(salt)))

(***************************************************************************)
(* Block cipher (abstracted AES-CBC with PKCS#7) and MAC.                  *)
(***************************************************************************)
\* the key and the IV as the cipher uses them
KeyByte(key) == SumSeq(key) % 256
IvByte(ivBytes) == SumSeq(ivBytes) % 256

\* PKCS#7 on blocks of one byte: one padding byte of value 1
Pkcs7Pad(bytes) == bytes \o <<1>>

\* CryptoJS pad.Pkcs7.unpad: sigBytes -= last byte, without validation
Pkcs7Unpad(bytes) ==
  LET n == IF bytes = <<>> THEN 0 ELSE bytes[Len(bytes)]
      m == Len(bytes) - n
  IN  IF m <= 0 THEN <<>> ELSE SubSeq(bytes, 1, m)

RECURSIVE CbcEncrypt(_, _, _)
CbcEncrypt(pt, k, prev) ==
  IF pt = <<>> THEN <<>>
  ELSE LET c == (Head(pt) + prev + k) % 256
       IN  <<c>> \o CbcEncrypt(Tail(pt), k, c)

CbcDecrypt(ct, k, iv) ==
  [i \in 1..Len(ct) |->
     (512 + ct[i] - k - (IF i = 1 THEN iv ELSE ct[i - 1])) % 256]

\* CryptoUtil.encryptData: CryptoJS.AES.encrypt(value, key, {iv}).toString()
encryptData(value, key, iv) ==
  Base64Stringify(
    CbcEncrypt(Pkcs7Pad(Utf8Parse(value)), KeyByte(key),
               IvByte(Base64Parse(iv))))

\* CryptoUtil.decryptData: AES.decrypt(...).toString(CryptoJS.enc.Utf8)
decryptData(decodedCipherText, key, decodedIv) ==
  Utf8Stringify(
    Pkcs7Unpad(CbcDecrypt(decodedCipherText, KeyByte(key), IvByte(decodedIv))))

\* CryptoJS.HmacSHA256(message, key).toString(), abstracted as an
\* injective function of message and key
HmacSHA256(message, key) == key \o <<"#">> \o message

\* generateMac as it would be if the cipherText were left out of the message
generateMac_NoCipherText(salt, iv, cipherText, key) ==
  HmacSHA256(salt \o <<":">> \o iv, Base64Stringify(key))

\* CryptoUtil.generateMac
generateMac(salt, iv, cipherText, key) ==
  HmacSHA256(salt \o <<":">> \o iv \o <<":">> \o cipherText,
             Base64Stringify(key))

\* verifyMac as it would be if a mismatch were logged and not thrown
verifyMac_LogOnly(computedMac, mac) == TRUE

\* CryptoUtil.verifyMac: TRUE when it returns, FALSE when it throws
verifyMac(computedMac, mac) == computedMac = mac

(***************************************************************************)
(* Envelope serialisation: JSON.stringify and JSON.parse.                  *)
(***************************************************************************)
NameSalt == <<"s", "a", "l", "t">>
NameIv == <<"i", "v">>
NameCipherText == <<"c", "i", "p", "h", "e", "r", "T", "e", "x", "t">>
NameMac == <<"m", "a", "c">>

Quote(s) == <<"\"">> \o s \o <<"\"">>

RECURSIVE JoinMembers(_)
JoinMembers(members) ==
  IF members = <<>> THEN <<>>
  ELSE Quote(Head(members)[1]) \o <<":">> \o Quote(Head(members)[2])
         \o (IF Len(members) > 1 THEN <<",">> ELSE <<>>)
         \o JoinMembers(Tail(members))

\* JSON.stringify of an object whose properties are strings, in property
\* order.  The strings the program serialises (Base64 text, MAC text) hold
\* no character that JSON escapes.
JsonStringifyMembers(members) == <<"{">> \o JoinMembers(members) \o <<"}">>

\* JSON.stringify(encryptionResult), cryptoManager.ts line 228
JsonStringify(e) ==
  JsonStringifyMembers(<< <<NameSalt, e.salt>>, <<NameIv, e.iv>>,
                          <<NameCipherText, e.cipherText>>,
                          <<NameMac, e.mac>> >>)

JsonFail == [ok |-> FALSE, kind |-> "error", members |-> <<>>]

\* the characters JSON.parse reads after a backslash, and what they stand
\* for ("BS" is the backspace); "u" takes four hexadecimal digits
HexDigits == <<"0", "1", "2", "3", "4", "5", "6", "7", "8", "9",
               "a", "b", "c", "d", "e", "f", "A", "B", "C", "D", "E", "F">>

\* the value of a hexadecimal digit, -1 for any other character
HexValue(ch) ==
  LET at == {i \in 1..22 : HexDigits[i] = ch}
  IN  IF at = {} THEN -1
      ELSE LET i == CHOOSE i \in at : TRUE
           IN  IF i <= 16 THEN i - 1 ELSE i - 7

Unescape(ch) ==
  CASE ch = "b" -> "BS"
    [] ch = "f" -> "\f"
    [] ch = "n" -> "\n"
    [] ch = "r" -> "\r"
    [] ch = "t" -> "\t"
    [] OTHER -> ch

\* the character \uXXXX stands for (one name for all outside Ascii)
UnicodeEscape(h) ==
  LET v == [i \in 1..4 |-> HexValue(h[i])]
      code == 4096 * v[1] + 256 * v[2] + 16 * v[3] + v[4]
  IN  IF code >= 32 /\ code <= 126 THEN Ascii[code - 31] ELSE "NONASCII"

StringFail == [ok |-> FALSE, str |-> <<>>, next |-> 0]

\* what JSON.parse reads at position p inside a string literal: how many
\* characters of the text, and the character they stand for; a raw
\* control character and a backslash before anything but
\* " \ / b f n r t u are errors
ScanChar(t, p) ==
  IF t[p] \in {"\n", "\r", "\t", "\f"} THEN [ok |-> FALSE, n |-> 0, ch |-> ""]
  ELSE IF t[p] # "\\" THEN [ok |-> TRUE, n |-> 1, ch |-> t[p]]
  ELSE IF p + 1 > Len(t) THEN [ok |-> FALSE, n |-> 0, ch |-> ""]
  ELSE IF t[p + 1] \in {"\"", "\\", "/", "b", "f", "n", "r", "t"}
  THEN [ok |-> TRUE, n |-> 2, ch |-> Unescape(t[p + 1])]
  ELSE IF /\ t[p + 1] = "u"
          /\ p + 5 <= Len(t)
          /\ \A i \in 2..5 : HexValue(t[p + i]) >= 0
  THEN [ok |-> TRUE, n |-> 6, ch |-> UnicodeEscape(SubSeq(t, p + 2, p + 5))]
  ELSE [ok |-> FALSE, n |-> 0, ch |-> ""]

\* the characters of a string literal from position p up to its closing
\* quote; a missing closing quote is an error
RECURSIVE ScanString(_, _, _)
ScanString(t, p, acc) ==
  IF p > Len(t) THEN StringFail
  ELSE IF t[p] = "\"" THEN [ok |-> TRUE, str |-> acc, next |-> p + 1]
  ELSE LET c == ScanChar(t, p)
       IN  IF ~c.ok THEN StringFail
           ELSE ScanString(t, p + c.n, Append(acc, c.ch))

\* a string literal opening at position p: its content and the position
\* after the closing quote
ParseString(t, p) ==
  IF p > Len(t) \/ t[p] # "\"" THEN StringFail
  ELSE ScanString(t, p + 1, <<>>)

RECURSIVE ParseMembers(_, _, _)

\* after a property's value val: a comma and the next property, or the
\* closing brace at the end of the text
ParseAfterValue(t, name, val, acc) ==
  IF ~val.ok \/ val.next > Len(t) THEN JsonFail
  ELSE IF t[val.next] = ","
  THEN ParseMembers(t, val.next + 1, Append(acc, <<name.str, val.str>>))
  ELSE IF t[val.next] = "}" /\ val.next = Len(t)
  THEN [ok |-> TRUE, kind |-> "object",
        members |-> Append(acc, <<name.str, val.str>>)]
  ELSE JsonFail

\* after a property's name: a colon and a string value
ParseAfterName(t, name, acc) ==
  IF ~name.ok \/ name.next > Len(t) \/ t[name.next] # ":"
  THEN JsonFail
  ELSE ParseAfterValue(t, name, ParseString(t, name.next + 1), acc)

\* the properties of an object from position p on
ParseMembers(t, p, acc) == ParseAfterName(t, ParseString(t, p), acc)

\* JSON.parse on the texts of the model: an object of string properties, a
\* bare string, the literal null; anything else is a SyntaxError
JsonParse(t) ==
  IF t = <<"n", "u", "l", "l">>
  THEN [ok |-> TRUE, kind |-> "null", members |-> <<>>]
  ELSE IF t = <<"{", "}">>
  THEN [ok |-> TRUE, kind |-> "object", members |-> <<>>]
  ELSE IF t # <<>> /\ t[1] = "{" THEN ParseMembers(t, 2, <<>>)
  ELSE IF t # <<>> /\ t[1] = "\""
  THEN LET str == ParseString(t, 1)
       IN  IF str.ok /\ str.next = Len(t) + 1
           THEN [ok |-> TRUE, kind |-> "string", members |-> <<>>]
           ELSE JsonFail
  ELSE JsonFail

\* the value of a property (the last one of that name), "" standing for
\* undefined as well: the code only tests the fields for falsiness
Property(members, name) ==
  LET hits == SelectSeq(members, LAMBDA m : m[1] = name)
  IN  IF hits = <<>> THEN <<>> ELSE hits[Len(hits)][2]

ErrRequired == "Encrypted data is required."
ErrSyntax == "SyntaxError"
ErrType == "TypeError"
ErrMissing == "Missing required properties in parsed data."
ErrMac == "MAC verification failed. The data may have been tampered with."
ErrEmpty == "Decryption failed. The result is empty or malformed."
ErrUtf8 == "Malformed UTF-8 data"

NoEnvelope == [salt |-> <<>>, iv |-> <<>>, cipherText |-> <<>>, mac |-> <<>>]

\* validateParsedData as it would be if the mac were not required
validateParsedData_NoMac(parsedData) ==
  IF parsedData.salt = <<>> \/ parsedData.iv = <<>>
       \/ parsedData.cipherText = <<>>
  THEN ErrMissing
  ELSE ""

\* CryptoUtil.validateParsedData: the error it throws, "" when it returns
validateParsedData(parsedData) ==
  IF parsedData.salt = <<>> \/ parsedData.iv = <<>>
       \/ parsedData.cipherText = <<>> \/ parsedData.mac = <<>>
  THEN ErrMissing
  ELSE ""

\* the four fields parseEncryptedData's caller destructures
EncryptionParams(members) ==
  [salt |-> Property(members, NameSalt),
   iv |-> Property(members, NameIv),
   cipherText |-> Property(members, NameCipherText),
   mac |-> Property(members, NameMac)]

\* parseEncryptedData after JSON.parse returned parsedData
parseValidated(parsedData, error) ==
  IF error # ""
  THEN [ok |-> FALSE, err |-> error, data |-> NoEnvelope]
  ELSE [ok |-> TRUE, err |-> "", data |-> parsedData]

\* parseEncryptedData after JSON.parse: a SyntaxError propagates, null
\* fails in the destructuring of validateParsedData
parseJson(json) ==
  IF ~json.ok
  THEN [ok |-> FALSE, err |-> ErrSyntax, data |-> NoEnvelope]
  ELSE IF json.kind = "null"
  THEN [ok |-> FALSE, err |-> ErrType, data |-> NoEnvelope]
  ELSE parseValidated(EncryptionParams(json.members),
                      validateParsedData(EncryptionParams(json.members)))

\* CryptoUtil.parseEncryptedData
parseEncryptedData(encryptedData) ==
  IF encryptedData = <<>>
  THEN [ok |-> FALSE, err |-> ErrRequired, data |-> NoEnvelope]
  ELSE parseJson(JsonParse(encryptedData))

(***************************************************************************)
(* Record transform: CryptoService.encrypt and CryptoService.decrypt.      *)
(* Each result carries the trace of the primitives the call invoked.       *)
(***************************************************************************)
\* encrypt as it would be if the salt were handed to encryptData as the IV
encrypt_OtherIv(value, secretKey, saltRnd, ivRnd) ==
  LET salt == generateSalt(SaltLength, saltRnd).str
      iv == generateIvAsBase64(IvLength, ivRnd).str
      key == deriveKeyWithArgon2(secretKey, salt)
      cipherText == encryptData(value, key, salt)
      mac == generateMac(salt, iv, cipherText, key)
  IN  [salt |-> salt, iv |-> iv, cipherText |-> cipherText, mac |-> mac]

\* CryptoService.encrypt(value, secretKey); saltRnd and ivRnd are the
\* bytes the random source returns to generateSalt and generateIvAsBase64
encrypt(value, secretKey, saltRnd, ivRnd) ==
  LET salt == generateSalt(SaltLength, saltRnd).str
      iv == generateIvAsBase64(IvLength, ivRnd).str
      key == deriveKeyWithArgon2(secretKey, salt)
      cipherText == encryptData(value, key, iv)
      mac == generateMac(salt, iv, cipherText, key)
  IN  [salt |-> salt, iv |-> iv, cipherText |-> cipherText, mac |-> mac]

DecFail(err, trace) ==
  [ok |-> FALSE, value |-> <<>>, err |-> err, trace |-> trace]

\* the trace of encrypt as it would be if the key were derived again for
\* the MAC
TraceOfEncrypt_DeriveTwice ==
  <<"generateSalt", "generateIvAsBase64", "deriveKeyWithArgon2",
    "encryptData", "deriveKeyWithArgon2", "generateMac">>

\* the primitives CryptoService.encrypt invokes, in order
TraceOfEncrypt ==
  <<"generateSalt", "generateIvAsBase64", "deriveKeyWithArgon2",
    "encryptData", "generateMac">>

\* the primitives invoked when argon2.hash rejects: encrypt stops in its
\* third call, decrypt in its second
TraceToFailedDerivation(trace) ==
  SubSeq(trace, 1,
         CHOOSE k \in 1..Len(trace) : trace[k] = "deriveKeyWithArgon2")

TraceToVerifyMac ==
  <<"parseEncryptedData", "deriveKeyWithArgon2", "generateMac", "verifyMac">>

TraceToDecryptData == Append(TraceToVerifyMac, "decryptData")

\* the end of decrypt as it would be without the emptiness check on the
\* result
returnDecrypted_NoEmptyCheck(decrypted) ==
  IF ~decrypted.ok THEN DecFail(ErrUtf8, TraceToDecryptData)
  ELSE [ok |-> TRUE, value |-> decrypted.str, err |-> "",
        trace |-> TraceToDecryptData]

\* CryptoService.decrypt after decryptData: decryptData throws on bytes
\* that are no UTF-8 text, an empty result is thrown as an error, any
\* other result is returned
returnDecrypted(decrypted) ==
  IF ~decrypted.ok THEN DecFail(ErrUtf8, TraceToDecryptData)
  ELSE IF decrypted.str = <<>> THEN DecFail(ErrEmpty, TraceToDecryptData)
  ELSE [ok |-> TRUE, value |-> decrypted.str, err |-> "",
        trace |-> TraceToDecryptData]

\* CryptoService.decrypt after the key derivation: generateMac, verifyMac,
\* and only then decryptData
decryptWithKey(d, key) ==
  IF ~verifyMac(generateMac(d.salt, d.iv, d.cipherText, key), d.mac)
  THEN DecFail(ErrMac, TraceToVerifyMac)
  ELSE returnDecrypted(decryptData(Base64Parse(d.cipherText), key,
                                   Base64Parse(d.iv)))

\* CryptoService.decrypt after parseEncryptedData, whose error propagates
\* from outside the try block
decryptParsed(parsedData, secretKey) ==
  IF ~parsedData.ok
  THEN DecFail(parsedData.err, <<"parseEncryptedData">>)
  ELSE decryptWithKey(parsedData.data,
                      deriveKeyWithArgon2(secretKey, parsedData.data.salt))

\* CryptoService.decrypt(encryptedData, secretKey)
decrypt(encryptedData, secretKey) ==
  decryptParsed(parseEncryptedData(encryptedData), secretKey)

(***************************************************************************)
(* String operations of the file transform.                                *)
(***************************************************************************)
IsSpace(c) == c \in {" ", "\t", "\r", "\n"}

RECURSIVE TrimStart(_)
TrimStart(s) ==
  IF s # <<>> /\ IsSpace(Head(s)) THEN TrimStart(Tail(s)) ELSE s

RECURSIVE TrimEnd(_)
TrimEnd(s) ==
  IF s # <<>> /\ IsSpace(s[Len(s)])
  THEN TrimEnd(SubSeq(s, 1, Len(s) - 1))
  ELSE s

\* String.prototype.trim
Trim(s) == TrimEnd(TrimStart(s))

\* String.prototype.split(sep) for a one-character separator: every
\* occurrence of sep separates two parts
RECURSIVE Split(_, _)
Split(s, sep) ==
  LET p == IndexOf(s, sep)
  IN  IF p = 0 THEN <<s>>
      ELSE <<SubSeq(s, 1, p - 1)>> \o Split(SubSeq(s, p + 1, Len(s)), sep)

\* Array.prototype.join(sep)
RECURSIVE Join(_, _)
Join(parts, sep) ==
  IF parts = <<>> THEN <<>>
  ELSE IF Len(parts) = 1 THEN Head(parts)
  ELSE Head(parts) \o <<sep>> \o Join(Tail(parts), sep)

StartsWith(s, prefix) ==
  Len(s) >= Len(prefix) /\ SubSeq(s, 1, Len(prefix)) = prefix

(***************************************************************************)
(* Base file store: EnvFilesHandler.getKeyValue and storeBaseEnvKey.       *)
(* The regular expressions are built from the key name without escaping;   *)
(* the key names of the model hold no character special in a pattern, so   *)
(* the name matches itself.                                                *)
(***************************************************************************)
\* the characters at which ^ and $ (flag m) match and which . does not match
IsLineTerminator(c) == c \in {"\n", "\r"}

\* 1-based position of the first match of ^keyName= (flag m), 0 when the
\* pattern does not match: at the start of the text or right after a line
\* terminator
LineMatch(envConfig, keyName) ==
  LET at == {p \in 1..Len(envConfig) :
               /\ p = 1 \/ IsLineTerminator(envConfig[p - 1])
               /\ StartsWith(SubSeq(envConfig, p, Len(envConfig)),
                             keyName \o <<"=">>)}
  IN  IF at = {} THEN 0 ELSE CHOOSE p \in at : \A q \in at : p <= q

\* position of the last character .* reaches on the line that starts at p
LineEnd(envConfig, p) ==
  LET ends == {q \in p..Len(envConfig) : IsLineTerminator(envConfig[q])}
  IN  IF ends = {} THEN Len(envConfig)
      ELSE (CHOOSE q \in ends : \A r \in ends : q <= r) - 1

\* what String.prototype.replace puts for the replacement text from its
\* first character on: $$ is a dollar sign, $& the matched text, $` the
\* text before the match, $' the text after it ("GRAVE" is the backtick);
\* the pattern has no capture group, so $1.. stand for themselves
ReplacementHead(r, matched, before, after) ==
  IF Head(r) # "$" \/ Len(r) = 1 THEN [n |-> 1, text |-> <<Head(r)>>]
  ELSE IF r[2] = "$" THEN [n |-> 2, text |-> <<"$">>]
  ELSE IF r[2] = "&" THEN [n |-> 2, text |-> matched]
  ELSE IF r[2] = "GRAVE" THEN [n |-> 2, text |-> before]
  ELSE IF r[2] = "'" THEN [n |-> 2, text |-> after]
  ELSE [n |-> 1, text |-> <<"$">>]

ReplacementTail(r, head) == SubSeq(r, head.n + 1, Len(r))

RECURSIVE ExpandReplacement(_, _, _, _)
ExpandRest(r, head, matched, before, after) ==
  head.text \o ExpandReplacement(ReplacementTail(r, head), matched, before,
                                 after)

\* the text String.prototype.replace inserts for the replacement string r
ExpandReplacement(r, matched, before, after) ==
  IF r = <<>> THEN <<>>
  ELSE ExpandRest(r, ReplacementHead(r, matched, before, after), matched,
                  before, after)

\* envConfig.replace(regex, replacement) for the match from p to q
ReplaceMatch(envConfig, p, q, replacement) ==
  SubSeq(envConfig, 1, p - 1)
    \o ExpandReplacement(replacement, SubSeq(envConfig, p, q),
                         SubSeq(envConfig, 1, p - 1),
                         SubSeq(envConfig, q + 1, Len(envConfig)))
    \o SubSeq(envConfig, q + 1, Len(envConfig))

\* storeBaseEnvKey, lines 122-128: the first line matching ^keyName=.* is
\* replaced, or keyName=keyValue and a line break are appended
updateEnvConfig(envConfig, keyName, keyValue) ==
  IF LineMatch(envConfig, keyName) # 0
  THEN ReplaceMatch(envConfig, LineMatch(envConfig, keyName),
                    LineEnd(envConfig, LineMatch(envConfig, keyName)),
                    keyName \o <<"=">> \o keyValue)
  ELSE envConfig \o keyName \o <<"=">> \o keyValue \o <<"\n">>

\* EnvFilesHandler.getKeyValue: group 1 of the first match of
\* ^keyName=(.*)$ (flag m), undefined when there is no match
getKeyValue(envConfig, keyName) ==
  IF LineMatch(envConfig, keyName) = 0
  THEN [found |-> FALSE, value |-> <<>>]
  ELSE [found |-> TRUE,
        value |-> SubSeq(envConfig,
                         LineMatch(envConfig, keyName) + Len(keyName) + 1,
                         LineEnd(envConfig, LineMatch(envConfig, keyName)))]

(***************************************************************************)
(* File transform: EncryptionHandler.encryptLines.                         *)
(***************************************************************************)
\* handleInvalidFormatError as it would be if it reported the 0-based index
handleInvalidFormatError_ZeroBased(index, line) ==
  [lineNo |-> index, content |-> line]

\* EncryptionHandler.handleInvalidFormatError(index, line): the message
\* "Line <index + 1> doesn't contain any variables or has invalid format:
\* <line>", kept as the two values it interpolates
handleInvalidFormatError(index, line) ==
  [lineNo |-> index + 1, content |-> line]

\* the line pushed for an assignment without a value as it would be if the
\* trimmed line were pushed
preservedLine_Trimmed(line, trimmedLine) == trimmedLine

\* encryptedLines.push(line) for an assignment without a value: the line
\* as it was read
preservedLine(line, trimmedLine) == line

\* the synchronous part of the for loop of encryptLines, from the 0-based
\* index on: it runs until a line has to be encrypted (the loop suspends in
\* `await CryptoService.encrypt`) or until the lines are exhausted
RECURSIVE encryptLinesLoop(_, _, _, _)
encryptLinesLoop(lines, index, encryptedLines, errors) ==
  IF index >= Len(lines)
  THEN [stop |-> "end", index |-> index, encryptedLines |-> encryptedLines,
        errors |-> errors, key |-> <<>>, value |-> <<>>]
  ELSE LET line == lines[index + 1]
           trimmedLine == Trim(line)
           parts == Split(trimmedLine, "=")
           key == parts[1]
           value == parts[2]
       IN  IF trimmedLine = <<>>
           THEN encryptLinesLoop(lines, index + 1,
                                 Append(encryptedLines, <<>>), errors)
           ELSE IF ~Includes(trimmedLine, "=")
           THEN encryptLinesLoop(lines, index + 1, encryptedLines,
                  Append(errors, handleInvalidFormatError(index, line)))
           ELSE IF value # <<>>
           THEN [stop |-> "await", index |-> index,
                 encryptedLines |-> encryptedLines, errors |-> errors,
                 key |-> key, value |-> Trim(value)]
           ELSE encryptLinesLoop(lines, index + 1,
                                 Append(encryptedLines,
                                        preservedLine(line, trimmedLine)),
                                 errors)

\* the emptiness check as it would be if the lines were not trimmed
EveryLineBlank_NoTrim(lines) == \A i \in 1..Len(lines) : lines[i] = <<>>

\* lines.every((line) => line.trim() === "")
EveryLineBlank(lines) == \A i \in 1..Len(lines) : Trim(lines[i]) = <<>>

(***************************************************************************)
(* Inputs of the model.                                                    *)
(***************************************************************************)
\* plaintext values handed to encryptValue
Plaintexts ==
  { <<>>, <<"a">>, <<"a", "=", "b">>, <<"x", " ", "y">> }

\* secret keys (the base file holds Base64 text)
SecretKeys == { <<"k", "1">>, <<"k", "2">> }

\* characters a tampered envelope may carry in place of the original one
TamperChars == {"A", "f", "\"", "\\", "\n"}

\* those of them JSON.parse does not read as themselves inside a string
JsonSpecial == {"\"", "\\", "\n"}

\* environment files, named by the path initializeEncryption resolves
EnvFiles == {".env.uat", ".env.dev"}

\* "\n" between the lines of a file
Text(lines) == Join(lines, "\n")

\* contents of the environment file before a transform
FileContents ==
  { Text(<< <<"A", "=", "1">>, <<>>, <<"B", "=", "2">>, <<"b", "a", "d">> >>),
    Text(<< <<"P", "=", "a", "=", "b">> >>),
    Text(<< <<"b", "a", "d">>, <<"A", "=", "=", "b">> >>),
    Text(<< <<" ">>, <<"K", "=">>, <<"b", "a", "d">>,
            <<" ", "A", " ", "=", " ", "x", " ">> >>),
    Text(<< <<>>, <<" ">> >>),
    Text(<< <<"b", "a", "d">> >>),
    Text(<< <<"A", "=", "1">>, <<>> >>),
    Text(<< <<"K", "=", " ">>, <<"A", "=", "1">> >>) }

(***************************************************************************)
(* State.                                                                  *)
(*   issued   the envelope most recently returned by encryptValue, with    *)
(*            the plaintext and key it was made from                       *)
(*   dec      the most recent decryptValue call: its input and result      *)
(*   files    content of each environment file                             *)
(*   call     the encryptEnvironmentVariables calls: position and locals   *)
(*   handler  fields of the EncryptionHandler instance all calls share     *)
(*   log      the entries handed to the winston logger                     *)
(*   store    the EnvFilesHandler under construction and the base file:    *)
(*            construction state, whether directory and file exist, and    *)
(*            the content of the base file                                 *)
(*   ops      the store operations completed so far, in order              *)
(*   writer   the processes running storeBaseEnvKey: position and locals   *)
(*   gen      the calls of the random generators made so far, in order     *)
(***************************************************************************)
Calls == 1..MaxCalls

NoIssue ==
  [made |-> FALSE, value |-> <<>>, key |-> <<>>, env |-> NoEnvelope,
   text |-> <<>>, err |-> "", trace |-> <<>>]

NoDec ==
  [kind |-> "none", text |-> <<>>, key |-> <<>>, field |-> "", pos |-> 0,
   res |-> DecFail("", <<>>)]

NoPending ==
  [key |-> <<>>, value |-> <<>>, secretKey |-> <<>>, saltRnd |-> <<>>,
   ivRnd |-> <<>>]

IdleCall ==
  [pc |-> "idle", env |-> "", secretKey |-> <<>>, lines |-> <<>>,
   index |-> 0, encryptedLines |-> <<>>, errors |-> <<>>,
   pending |-> NoPending, err |-> "", path |-> ""]

LogEntry(c, level, msg, arg) ==
  [call |-> c, level |-> level, msg |-> msg, arg |-> arg]

\* the logError calls of the catch blocks an error passes through
LogChain(c, err, methods) ==
  [i \in 1..Len(methods) |-> LogEntry(c, "error", methods[i], <<err>>)]

ErrKeyNotFound == "Key not found in .env file"
ErrEmptyFile == "File is completely empty or contains only whitespace."
ErrNoContent == "No content provided for file: utf8"

\* the store once `new EncryptionHandler()` has returned, its base file
\* empty
ReadyStore ==
  [state |-> "Ready", dirExists |-> TRUE, fileExists |-> TRUE,
   content |-> <<>>]

\* no store operation, no writer process and no generator call
InitStoreIdle ==
  /\ store = ReadyStore
  /\ ops = <<>>
  /\ writer = <<>>
  /\ gen = <<>>

InitValue ==
  /\ issued = NoIssue
  /\ dec = NoDec
  /\ files = [f \in EnvFiles |-> Text(<< <<"B", "=", "b">> >>)]
  /\ call = [c \in Calls |-> IdleCall]
  /\ handler = [envFilePath |-> "", secretKey |-> <<>>]
  /\ log = <<>>
  /\ InitStoreIdle

InitFile ==
  /\ issued = NoIssue
  /\ dec = NoDec
  /\ \E content \in FileContents :
       files = [f \in EnvFiles |->
                  IF f = ".env.uat" THEN content
                  ELSE Text(<< <<"B", "=", "b">> >>)]
  /\ call = [c \in Calls |-> IdleCall]
  /\ handler = [envFilePath |-> "", secretKey |-> <<>>]
  /\ log = <<>>
  /\ InitStoreIdle


(***************************************************************************)
(* Record transform actions.                                               *)
(***************************************************************************)
\* encryptValue(v, s), followed by the caller's JSON.stringify
EncryptValue ==
  /\ dec.kind = "none"
  /\ \E v \in Plaintexts, s \in SecretKeys,
        saltRnd \in randomBytes(SaltLength), ivRnd \in randomBytes(IvLength) :
       LET encryptionResult == encrypt(v, s, saltRnd, ivRnd)
       IN  issued' = [made |-> TRUE, value |-> v, key |-> s,
                      env |-> encryptionResult,
                      text |-> JsonStringify(encryptionResult),
                      err |-> "", trace |-> TraceOfEncrypt]
  /\ UNCHANGED <<dec, files, call, handler, log>>
  /\ UNCHANGED storeVars

ReplaceAt(s, p, ch) == [s EXCEPT ![p] = ch]

\* 0-based offset of a field's value in the serialised envelope
FieldOffset(e, field) ==
  LET upToCipher == 9 + Len(e.salt) + 8 + Len(e.iv) + 16
  IN  IF field = "cipherText" THEN upToCipher
      ELSE upToCipher + Len(e.cipherText) + 9

FieldValue(e, field) == IF field = "cipherText" THEN e.cipherText ELSE e.mac

Members(e) ==
  << <<NameSalt, e.salt>>, <<NameIv, e.iv>>,
     <<NameCipherText, e.cipherText>>, <<NameMac, e.mac>> >>

\* the texts handed to decryptValue: the issued envelope, the envelope
\* with one character of cipherText or mac replaced, and texts that are
\* empty, unparseable or lack a field (or carry it empty)
DecryptInputs ==
  { [kind |-> "genuine", text |-> issued.text, field |-> "", pos |-> 0] }
  \cup
  { [kind |-> "tampered",
     text |-> ReplaceAt(issued.text,
                        FieldOffset(issued.env, in[1]) + in[2], in[3]),
     field |-> in[1], pos |-> in[2]] :
      in \in { x \in {"cipherText", "mac"} \X (1..40) \X TamperChars :
                 /\ x[2] <= Len(FieldValue(issued.env, x[1]))
                 /\ FieldValue(issued.env, x[1])[x[2]] # x[3] } }
  \cup
  { [kind |-> "malformed", text |-> t, field |-> "", pos |-> 0] :
      t \in { <<>>, <<"{", "}">>, <<"n", "u", "l", "l">>,
              <<"\"", "x", "\"">>, <<"x", "y", "z">>,
              SubSeq(issued.text, 1, Len(issued.text) - 1) }
            \cup { JsonStringifyMembers(
                     SelectSeq(Members(issued.env), LAMBDA m : m[1] # n)) :
                     n \in {NameSalt, NameIv, NameCipherText, NameMac} }
            \cup { JsonStringifyMembers(
                     [i \in 1..4 |->
                        IF Members(issued.env)[i][1] = n
                        THEN <<n, <<>> >>
                        ELSE Members(issued.env)[i]]) :
                     n \in {NameSalt, NameIv, NameCipherText, NameMac} } }

\* decryptValue(text, s)
DecryptValue ==
  /\ issued.made
  /\ dec.kind = "none"
  /\ \E in \in DecryptInputs, s \in SecretKeys :
       dec' = [kind |-> in.kind, text |-> in.text, key |-> s,
               field |-> in.field, pos |-> in.pos,
               res |-> decrypt(in.text, s)]
  /\ UNCHANGED <<issued, files, call, handler, log>>
  /\ UNCHANGED storeVars

NextValue == EncryptValue \/ DecryptValue

(***************************************************************************)
(* The key derivation fails: argon2.hash rejects, as it does for a salt    *)
(* shorter than eight bytes or when its memory cannot be allocated.        *)
(* deriveKeyWithArgon2 logs and rethrows, and so does the caller.          *)
(***************************************************************************)
ErrKdf == "argon2.hash rejected"

\* the derivations that have failed so far, each logged once by
\* deriveKeyWithArgon2
KdfFaults ==
  Cardinality({k \in 1..Len(log) : log[k].msg = "deriveKeyWithArgon2"})

\* CryptoService.decrypt when argon2.hash rejects
decryptKdfFails(parsedData) ==
  IF ~parsedData.ok
  THEN DecFail(parsedData.err, <<"parseEncryptedData">>)
  ELSE DecFail(ErrKdf, TraceToFailedDerivation(TraceToVerifyMac))

\* encryptValue(v, s) when argon2.hash rejects
EncryptValueKdfFails ==
  /\ dec.kind = "none"
  /\ KdfFaults < MaxKdfFaults
  /\ \E v \in Plaintexts, s \in SecretKeys :
       issued' = [NoIssue EXCEPT
                    !.value = v, !.key = s, !.err = ErrKdf,
                    !.trace = TraceToFailedDerivation(TraceOfEncrypt)]
  /\ log' = log \o LogChain(0, ErrKdf, <<"deriveKeyWithArgon2", "encrypt">>)
  /\ UNCHANGED <<dec, files, call, handler>>
  /\ UNCHANGED storeVars

\* decryptValue(text, s) when argon2.hash rejects
DecryptValueKdfFails ==
  /\ issued.made
  /\ dec.kind = "none"
  /\ KdfFaults < MaxKdfFaults
  /\ \E in \in DecryptInputs, s \in SecretKeys :
       /\ dec' = [kind |-> in.kind, text |-> in.text, key |-> s,
                  field |-> in.field, pos |-> in.pos,
                  res |-> decryptKdfFails(parseEncryptedData(in.text))]
       /\ log' = IF parseEncryptedData(in.text).ok
                 THEN log \o LogChain(0, ErrKdf,
                                      <<"deriveKeyWithArgon2", "decrypt">>)
                 ELSE log
  /\ UNCHANGED <<issued, files, call, handler>>
  /\ UNCHANGED storeVars

NextKdfFault ==
  \/ EncryptValue
  \/ DecryptValue
  \/ EncryptValueKdfFails
  \/ DecryptValueKdfFails

SpecKdfFault == InitValue /\ [][NextKdfFault]_vars

SpecValue == InitValue /\ [][NextValue]_vars

(***************************************************************************)
(* File transform actions: CryptoManager.encryptEnvironmentVariables.      *)
(* The call suspends at every `await`: once per encrypted line, in the key *)
(* derivation of CryptoService.encrypt, and once when encryptLines has     *)
(* returned, before encryptEnvVariables writes the file.                   *)
(***************************************************************************)
\* what the loop logs while it runs from the errors collected so far to
\* its next stop: logger.error for each malformed line, and at the end of
\* the lines the logError of the collected batch
LoopLog(c, errorsBefore, r) ==
  [i \in 1..(Len(r.errors) - Len(errorsBefore)) |->
     LogEntry(c, "error", "format", <<r.errors[Len(errorsBefore) + i]>>)]
  \o (IF r.stop = "end" /\ r.errors # <<>>
      THEN <<LogEntry(c, "error", "batch", r.errors)>>
      ELSE <<>>)

\* the locals of the call when the loop stops: in CryptoService.encrypt,
\* with salt and IV drawn and this.secretKey read, or after the last line
AfterLoop(cr, r, secretKey, saltRnd, ivRnd) ==
  IF r.stop = "await"
  THEN [cr EXCEPT !.pc = "kdf", !.index = r.index,
                  !.encryptedLines = r.encryptedLines, !.errors = r.errors,
                  !.pending = [key |-> r.key, value |-> r.value,
                               secretKey |-> secretKey,
                               saltRnd |-> saltRnd, ivRnd |-> ivRnd]]
  ELSE [cr EXCEPT !.pc = "write", !.index = r.index,
                  !.encryptedLines = r.encryptedLines, !.errors = r.errors,
                  !.pending = NoPending]

\* encryptEnvironmentVariables(env, secretKey) up to its first suspension:
\* initializeEncryption, readEnvFileAsLines, the checks of encryptLines and
\* the loop up to the first line to encrypt
StartEncryptCall(c) ==
  \E env \in EnvFiles, secretKey \in SecretKeys \cup {<<>>},
     saltRnd \in randomBytes(SaltLength), ivRnd \in randomBytes(IvLength) :
    LET cr == [IdleCall EXCEPT !.env = env, !.secretKey = secretKey]
        lines == Split(files[env], "\n")
        r == encryptLinesLoop(lines, 0, <<>>, <<>>)
    IN  /\ call[c].pc = "idle"
        /\ handler' = [envFilePath |-> env,
                       secretKey |-> IF secretKey = <<>>
                                     THEN handler.secretKey
                                     ELSE secretKey]
        /\ IF secretKey = <<>>
           THEN /\ call' = [call EXCEPT ![c] =
                              [cr EXCEPT !.pc = "failed",
                                         !.err = ErrKeyNotFound]]
                /\ log' = log
                     \o <<LogEntry(c, "error", "logThrowError",
                                   <<ErrKeyNotFound>>)>>
                     \o LogChain(c, ErrKeyNotFound,
                                 <<"getSecretKey", "initializeEncryption",
                                   "encryptEnvironmentVariables">>)
           ELSE IF EveryLineBlank(lines)
           THEN /\ call' = [call EXCEPT ![c] =
                              [cr EXCEPT !.pc = "failed", !.lines = lines,
                                         !.err = ErrEmptyFile]]
                /\ log' = log
                     \o <<LogEntry(c, "error", "logThrowError",
                                   <<ErrEmptyFile>>)>>
                     \o LogChain(c, ErrEmptyFile,
                                 <<"encryptLines", "encryptEnvParameters",
                                   "encryptEnvironmentVariables">>)
           ELSE /\ call' = [call EXCEPT ![c] =
                              AfterLoop([cr EXCEPT !.lines = lines], r,
                                        secretKey, saltRnd, ivRnd)]
                /\ log' = log \o LoopLog(c, <<>>, r)
        /\ UNCHANGED <<issued, dec, files>>
        /\ UNCHANGED storeVars

\* a call made when every earlier call has settled
StartEncrypt(c) ==
  /\ \A d \in Calls : d < c => call[d].pc \in {"done", "failed"}
  /\ StartEncryptCall(c)

\* the key derivation of the pending CryptoService.encrypt resolves: the
\* line is encrypted, serialised and pushed, and the loop goes on to the
\* next line to encrypt or to the end of the lines
ResumeEncrypt(c) ==
  \E saltRnd \in randomBytes(SaltLength), ivRnd \in randomBytes(IvLength) :
    LET cr == call[c]
        p == cr.pending
        encryptionResult == encrypt(p.value, p.secretKey, p.saltRnd, p.ivRnd)
        encryptedValue == JsonStringify(encryptionResult)
        pushed == Append(cr.encryptedLines, p.key \o <<"=">> \o encryptedValue)
        r == encryptLinesLoop(cr.lines, cr.index + 1, pushed, cr.errors)
    IN  /\ cr.pc = "kdf"
        /\ call' = [call EXCEPT ![c] =
                      AfterLoop(cr, r, handler.secretKey, saltRnd, ivRnd)]
        /\ log' = log \o LoopLog(c, cr.errors, r)
        /\ UNCHANGED <<issued, dec, files, handler>>
        /\ UNCHANGED storeVars

\* encryptEnvVariables after `await this.encryptLines`: writeEnvFileLines
\* (utilityHelper.writeFile refuses an empty content) and
\* logEncryptionSuccess
WriteFile(c) ==
  LET cr == call[c]
      content == Join(cr.encryptedLines, "\n")
      path == handler.envFilePath
  IN  /\ cr.pc = "write"
      /\ IF content = <<>>
         THEN /\ call' = [call EXCEPT ![c] =
                            [cr EXCEPT !.pc = "failed", !.err = ErrNoContent]]
              /\ log' = log
                   \o <<LogEntry(c, "warn", "writeFile", <<ErrNoContent>>)>>
                   \o LogChain(c, ErrNoContent,
                               <<"writeEnvFile", "encryptEnvParameters",
                                 "encryptEnvironmentVariables">>)
              /\ UNCHANGED files
         ELSE /\ files' = [files EXCEPT ![path] = content]
              /\ call' = [call EXCEPT ![c] =
                            [cr EXCEPT !.pc = "done", !.path = path]]
              /\ log' = log
                   \o <<LogEntry(c, "info", "writeFile", <<>>),
                        LogEntry(c, "info", "summary",
                                 <<Len(cr.encryptedLines)>>)>>
      /\ UNCHANGED <<issued, dec, handler>>
      /\ UNCHANGED storeVars

NextFile == \E c \in Calls : StartEncrypt(c) \/ ResumeEncrypt(c) \/ WriteFile(c)

SpecFile == InitFile /\ [][NextFile]_vars

(***************************************************************************)
(* Store actions: the EnvFilesHandler constructor, getKeyValue,            *)
(* storeBaseEnvKey and CryptoManager.generateAndStoreSecretKey.            *)
(***************************************************************************)
\* key names the store is asked for
StoreNames == {<<"K">>, <<"M">>}

\* values the store is asked to keep
StoreValues == {<<"1">>, <<"2">>, <<"$", "&">>, <<"$", "'">>}

\* contents of the base file before the store is constructed
BaseContents ==
  { <<>>,
    <<"K", "=", "1", "\n">>,
    <<"X", "=", "1">>,
    <<"K", "=", "1", "\n", "M", "=", "2", "\n">>,
    <<"K", "=", "1", "\n", "K", "=", "3", "\n">> }

\* utilityHelper.ensureDirExists: mkdirSync when existsSync is false
ensureDirExists(st) ==
  IF st.dirExists THEN st ELSE [st EXCEPT !.dirExists = TRUE]

\* ensureFileExists as it would be without the test of existsSync
ensureFileExists_NoExistsCheck(st) ==
  [st EXCEPT !.fileExists = TRUE, !.content = <<>>]

\* utilityHelper.ensureFileExists: an empty file is written when
\* existsSync is false
ensureFileExists(st) ==
  IF st.fileExists THEN st
  ELSE [st EXCEPT !.fileExists = TRUE, !.content = <<>>]

StoreLog(level, msg) == LogEntry(0, level, msg, <<>>)

InitStore ==
  /\ issued = NoIssue
  /\ dec = NoDec
  /\ files = [f \in EnvFiles |-> Text(<< <<"B", "=", "b">> >>)]
  /\ call = [c \in Calls |-> IdleCall]
  /\ handler = [envFilePath |-> "", secretKey |-> <<>>]
  /\ log = <<>>
  /\ \E dirExists \in BOOLEAN, fileExists \in BOOLEAN,
        content \in BaseContents :
       /\ fileExists => dirExists
       /\ ~fileExists => content = <<>>
       /\ store = [state |-> "Uninitialized", dirExists |-> dirExists,
                   fileExists |-> fileExists, content |-> content]
  /\ ops = <<>>
  /\ writer = <<>>
  /\ gen = <<>>

\* the constructor up to and including ensureDirExists(this.envDirPath)
EnsureDir ==
  /\ store.state = "Uninitialized"
  /\ store' = [ensureDirExists(store) EXCEPT !.state = "DirectoryEnsured"]
  /\ log' = IF store.dirExists THEN log
            ELSE Append(log, StoreLog("info", "ensureDirExists"))
  /\ UNCHANGED <<issued, dec, files, call, handler, ops, writer, gen>>

\* ensureFileExists(this.baseEnvFilePath)
EnsureFile ==
  /\ store.state = "DirectoryEnsured"
  /\ store' = [ensureFileExists(store) EXCEPT !.state = "FileEnsured"]
  /\ log' = IF store.fileExists THEN log
            ELSE Append(log, StoreLog("info", "ensureFileExists"))
  /\ UNCHANGED <<issued, dec, files, call, handler, ops, writer, gen>>

\* the constructor returns: the instance and its methods can be used
ConstructorReturn ==
  /\ store.state = "FileEnsured"
  /\ store' = [store EXCEPT !.state = "Ready"]
  /\ UNCHANGED <<issued, dec, files, call, handler, log, ops, writer, gen>>

\* an entry of ops: the operation, its arguments, the content of the base
\* file before and after it, whether it returned, and for getKeyValue
\* whether a value was found and which
StoreOp(op, name, value, before, after, ok, found, result) ==
  [op |-> op, name |-> name, value |-> value, before |-> before,
   after |-> after, ok |-> ok, found |-> found, result |-> result]

\* utilityHelper.writeFile on the base file: an empty content is refused
writeKeyToBaseEnvFile(st, content) ==
  IF content = <<>> THEN st ELSE [st EXCEPT !.content = content]

\* what storeBaseEnvKey logs: the two info lines of a write, or the warning
\* and the logError calls of the catch blocks when the content is empty
StoreKeyLog(content) ==
  IF content = <<>>
  THEN <<StoreLog("warn", "writeFile"), StoreLog("error", "writeEnvFile"),
         StoreLog("error", "storeKeyInEnv")>>
  ELSE <<StoreLog("info", "writeFile"),
         StoreLog("info", "writeKeyToBaseEnvFile")>>

\* storeBaseEnvKey(keyName, keyValue) called as operation op, envConfig
\* being the content after the update or the append
StoreKey(op, keyName, keyValue, envConfig) ==
  /\ store' = writeKeyToBaseEnvFile(store, envConfig)
  /\ ops' = Append(ops, StoreOp(op, keyName, keyValue, store.content,
                                envConfig, envConfig # <<>>, FALSE, <<>>))
  /\ log' = log \o StoreKeyLog(envConfig)

\* EnvFilesHandler.storeBaseEnvKey(keyName, keyValue)
SetValue ==
  /\ store.state = "Ready"
  /\ Len(ops) < MaxOps
  /\ \E keyName \in StoreNames, keyValue \in StoreValues :
       StoreKey("setValue", keyName, keyValue,
                updateEnvConfig(store.content, keyName, keyValue))
  /\ UNCHANGED <<issued, dec, files, call, handler, writer, gen>>

\* the entry of ops for getKeyValue returning r
GetOp(keyName, r) ==
  StoreOp("getValue", keyName, <<>>, store.content, store.content, TRUE,
          r.found, r.value)

\* EnvFilesHandler.getKeyValue(keyName)
GetValue ==
  /\ store.state = "Ready"
  /\ Len(ops) < MaxOps
  /\ \E keyName \in StoreNames :
       ops' = Append(ops, GetOp(keyName, getKeyValue(store.content, keyName)))
  /\ UNCHANGED <<issued, dec, files, call, handler, log, store, writer, gen>>

\* generateAndStoreSecretKey after generateSecretKey returned or threw
StoreSecretKey(keyName, secretKey) ==
  IF secretKey.ok
  THEN StoreKey("generateAndStoreSecretKey", keyName, secretKey.str,
                updateEnvConfig(store.content, keyName, secretKey.str))
  ELSE /\ ops' = Append(ops, StoreOp("generateAndStoreSecretKey", keyName,
                                     <<>>, store.content, store.content,
                                     FALSE, FALSE, <<>>))
       /\ log' = log \o <<StoreLog("error", "generateKey"),
                           StoreLog("error", "generateSecretKey"),
                           StoreLog("error", "storeSecretKey")>>
       /\ store' = store

\* CryptoManager.generateAndStoreSecretKey(keyName)
GenerateAndStoreSecretKey ==
  /\ store.state = "Ready"
  /\ Len(ops) < MaxOps
  /\ \E keyName \in StoreNames, rnd \in randomBytes(SecretKeyLength) :
       StoreSecretKey(keyName, generateSecretKey(SecretKeyLength, rnd))
  /\ UNCHANGED <<issued, dec, files, call, handler, writer, gen>>

NextStore ==
  \/ EnsureDir
  \/ EnsureFile
  \/ ConstructorReturn
  \/ SetValue
  \/ GetValue
  \/ GenerateAndStoreSecretKey

SpecStore == InitStore /\ [][NextStore]_vars

(***************************************************************************)
(* Concurrent use.  Two encryptEnvironmentVariables calls overlap when the *)
(* second is made while the first is suspended at an `await`; calls are    *)
(* numbered in the order they are made.  Two processes that each run       *)
(* storeBaseEnvKey on the same base file interleave at its two file system *)
(* calls, readFileSync and writeFileSync.                                  *)
(***************************************************************************)
OverlapCalls == {1, 2}

Writers == {1, 2}

\* values the writer processes store
WriterValues == {<<"1">>, <<"2">>}

\* contents of the base file before the writers run
RaceContents == {<<>>, <<"K", "=", "0", "\n">>}

\* a writer before storeBaseEnvKey is called: position, arguments, and the
\* local envConfig
IdleWriter ==
  [pc |-> "idle", keyName |-> <<>>, keyValue |-> <<>>, envConfig |-> <<>>]

\* two overlapping calls on the environment files, or two writers of the
\* base file
InitConcurrent ==
  /\ issued = NoIssue
  /\ dec = NoDec
  /\ files = [f \in EnvFiles |->
                IF f = ".env.uat"
                THEN Text(<< <<"A", "=", "1">>, <<"B", "=", "2">> >>)
                ELSE Text(<< <<"B", "=", "b">> >>)]
  /\ handler = [envFilePath |-> "", secretKey |-> <<>>]
  /\ log = <<>>
  /\ ops = <<>>
  /\ gen = <<>>
  /\ \/ /\ call = [c \in OverlapCalls |-> IdleCall]
        /\ writer = <<>>
        /\ store = ReadyStore
     \/ /\ call = <<>>
        /\ writer = [w \in Writers |-> IdleWriter]
        /\ \E content \in RaceContents :
             store = [ReadyStore EXCEPT !.content = content]

\* a call made while the calls before it may still be suspended
StartOverlapped(c) ==
  /\ \A d \in DOMAIN call : d < c => call[d].pc # "idle"
  /\ StartEncryptCall(c)

\* storeBaseEnvKey up to and including readBaseEnvFile
WriterRead(w) ==
  /\ writer[w].pc = "idle"
  /\ \E keyName \in StoreNames, keyValue \in WriterValues :
       writer' = [writer EXCEPT ![w] =
                    [pc |-> "read", keyName |-> keyName,
                     keyValue |-> keyValue, envConfig |-> store.content]]
  /\ UNCHANGED <<issued, dec, files, call, handler, log, store, ops, gen>>

\* the content a writer hands to writeKeyToBaseEnvFile as it would be if
\* the base file were read again at that moment
WriterOutput_ReadAgain(wr) ==
  updateEnvConfig(store.content, wr.keyName, wr.keyValue)

\* the content a writer hands to writeKeyToBaseEnvFile: the update of the
\* envConfig it read
WriterOutput(wr) == updateEnvConfig(wr.envConfig, wr.keyName, wr.keyValue)

\* storeBaseEnvKey from the update of envConfig to writeKeyToBaseEnvFile
WriterWrite(w) ==
  /\ writer[w].pc = "read"
  /\ store' = writeKeyToBaseEnvFile(store, WriterOutput(writer[w]))
  /\ ops' = Append(ops, StoreOp("setValue", writer[w].keyName,
                                writer[w].keyValue, writer[w].envConfig,
                                store'.content, TRUE, FALSE, <<>>))
  /\ log' = log \o StoreKeyLog(WriterOutput(writer[w]))
  /\ writer' = [writer EXCEPT ![w].pc = "done"]
  /\ UNCHANGED <<issued, dec, files, call, handler, gen>>

NextConcurrent ==
  \/ \E c \in DOMAIN call :
       StartOverlapped(c) \/ ResumeEncrypt(c) \/ WriteFile(c)
  \/ \E w \in DOMAIN writer : WriterRead(w) \/ WriterWrite(w)

SpecConcurrent == InitConcurrent /\ [][NextConcurrent]_vars

(***************************************************************************)
(* Generator actions: CryptoUtil.generateSalt, generateIvAsBase64,         *)
(* generateIvAsBuffer and generateSecretKey called with a length.          *)
(***************************************************************************)
\* lengths the generators are called with
GenLengths == {-2, -1, 0, 1, 2}

\* an entry of gen: the generator, its argument and its result
GenCall(fn, length, res) == [fn |-> fn, length |-> length, res |-> res]

InitGen ==
  /\ issued = NoIssue
  /\ dec = NoDec
  /\ files = [f \in EnvFiles |-> Text(<< <<"B", "=", "b">> >>)]
  /\ call = [c \in Calls |-> IdleCall]
  /\ handler = [envFilePath |-> "", secretKey |-> <<>>]
  /\ log = <<>>
  /\ InitStoreIdle

\* CryptoUtil.generateSalt(length)
GenerateSalt ==
  /\ Len(gen) < MaxGenCalls
  /\ \E length \in GenLengths : \E rnd \in randomBytes(length) :
       gen' = Append(gen, GenCall("generateSalt", length,
                                  generateSalt(length, rnd)))
  /\ UNCHANGED <<issued, dec, files, call, handler, log, store, ops, writer>>

\* CryptoUtil.generateIvAsBase64(length)
GenerateIvAsBase64 ==
  /\ Len(gen) < MaxGenCalls
  /\ \E length \in GenLengths : \E rnd \in randomBytes(length) :
       gen' = Append(gen, GenCall("generateIvAsBase64", length,
                                  generateIvAsBase64(length, rnd)))
  /\ UNCHANGED <<issued, dec, files, call, handler, log, store, ops, writer>>

\* CryptoUtil.generateIvAsBuffer(length)
GenerateIvAsBuffer ==
  /\ Len(gen) < MaxGenCalls
  /\ \E length \in GenLengths : \E rnd \in randomBytes(length) :
       gen' = Append(gen, GenCall("generateIvAsBuffer", length,
                                  generateIvAsBuffer(length, rnd)))
  /\ UNCHANGED <<issued, dec, files, call, handler, log, store, ops, writer>>

\* CryptoUtil.generateSecretKey(length)
GenerateSecretKey ==
  /\ Len(gen) < MaxGenCalls
  /\ \E length \in GenLengths : \E rnd \in randomBytes(length) :
       gen' = Append(gen, GenCall("generateSecretKey", length,
                                  generateSecretKey(length, rnd)))
  /\ log' = IF gen'[Len(gen')].res.ok THEN log
            ELSE Append(log, StoreLog("error", "generateKey"))
  /\ UNCHANGED <<issued, dec, files, call, handler, store, ops, writer>>

NextGen ==
  \/ GenerateSalt
  \/ GenerateIvAsBase64
  \/ GenerateIvAsBuffer
  \/ GenerateSecretKey

SpecGen == InitGen /\ [][NextGen]_vars

(***************************************************************************)
(* The logger throws.  A step of encryptEnvironmentVariables in which the  *)
(* first message handed to the winston logger makes it throw: for that     *)
(* message only, or for every message from then on.  The faults are put at *)
(* the steps whose first message is that of logThrowError or of            *)
(* utilityHelper.writeFile.                                                *)
(***************************************************************************)
ErrLogger == "logger failure"

\* what the catch blocks an error passes through log once the logger has
\* thrown: ErrorHandler.logError records the error when the logger works
\* again, and throws the logger's error in place of it when it does not
LogAfterFault(c, persistent, methods) ==
  IF persistent THEN <<>> ELSE LogChain(c, ErrLogger, methods)

\* the call as it ends when the logger has thrown
FailedByLogger(cr) == [cr EXCEPT !.pc = "failed", !.err = ErrLogger]

\* encryptEnvironmentVariables(env, secretKey) with an empty secret key or
\* on a file of blank lines, logger.error throwing inside logThrowError
StartEncryptLoggerThrows(c) ==
  /\ call[c].pc = "idle"
  /\ \A d \in Calls : d < c => call[d].pc \in {"done", "failed"}
  /\ \E env \in EnvFiles, secretKey \in SecretKeys \cup {<<>>},
        persistent \in BOOLEAN :
       /\ secretKey = <<>> \/ EveryLineBlank(Split(files[env], "\n"))
       /\ handler' = [envFilePath |-> env,
                      secretKey |-> IF secretKey = <<>>
                                    THEN handler.secretKey
                                    ELSE secretKey]
       /\ call' = [call EXCEPT ![c] =
                     FailedByLogger(
                       [IdleCall EXCEPT
                          !.env = env, !.secretKey = secretKey,
                          !.lines = IF secretKey = <<>> THEN <<>>
                                    ELSE Split(files[env], "\n")])]
       /\ log' = log
            \o LogAfterFault(c, persistent,
                  IF secretKey = <<>>
                  THEN <<"getSecretKey", "initializeEncryption",
                         "encryptEnvironmentVariables">>
                  ELSE <<"encryptLines", "encryptEnvParameters",
                         "encryptEnvironmentVariables">>)
  /\ UNCHANGED <<issued, dec, files>>
  /\ UNCHANGED storeVars

\* the content of the files after utilityHelper.writeFile, which writes
\* before it logs
WrittenFiles(path, content) ==
  IF content = <<>> THEN files ELSE [files EXCEPT ![path] = content]

\* encryptEnvVariables after `await this.encryptLines`, the logger
\* throwing at the message of utilityHelper.writeFile: logger.warn before
\* the error of an empty content, logger.info after writeFileSync
WriteFileLoggerThrows(c) ==
  /\ call[c].pc = "write"
  /\ files' = WrittenFiles(handler.envFilePath,
                           Join(call[c].encryptedLines, "\n"))
  /\ call' = [call EXCEPT ![c] = FailedByLogger(call[c])]
  /\ \E persistent \in BOOLEAN :
       log' = log
         \o LogAfterFault(c, persistent,
               IF Join(call[c].encryptedLines, "\n") = <<>>
               THEN <<"writeEnvFile", "encryptEnvParameters",
                      "encryptEnvironmentVariables">>
               ELSE <<"saveFile", "writeEnvFile", "encryptEnvParameters",
                      "encryptEnvironmentVariables">>)
  /\ UNCHANGED <<issued, dec, handler>>
  /\ UNCHANGED storeVars

NextLogFault ==
  \E c \in Calls :
    \/ StartEncrypt(c)
    \/ ResumeEncrypt(c)
    \/ WriteFile(c)
    \/ StartEncryptLoggerThrows(c)
    \/ WriteFileLoggerThrows(c)

SpecLogFault == InitFile /\ [][NextLogFault]_vars

(***************************************************************************)
(* The key derivation of a line of the file transform fails.  The error    *)
(* passes through the catch blocks of deriveKeyWithArgon2, encrypt,        *)
(* encryptLines, encryptEnvVariables and encryptEnvironmentVariables.      *)
(***************************************************************************)
\* the files when encryptLines rejects, as they would be if the lines
\* encrypted so far were written
FilesAfterRejection_WritePartial(cr) ==
  [files EXCEPT ![cr.env] = Join(cr.encryptedLines, "\n")]

\* the files when encryptLines rejects: encryptEnvVariables goes to its
\* catch block and writeEnvFileLines is not reached
FilesAfterRejection(cr) == files

\* the pending key derivation of the call rejects
ResumeEncryptKdfFails(c) ==
  /\ call[c].pc = "kdf"
  /\ call' = [call EXCEPT ![c] =
                [call[c] EXCEPT !.pc = "failed", !.err = ErrKdf,
                                !.pending = NoPending]]
  /\ files' = FilesAfterRejection(call[c])
  /\ log' = log
       \o LogChain(c, ErrKdf,
                   <<"deriveKeyWithArgon2", "encrypt", "encryptLines",
                     "encryptEnvParameters", "encryptEnvironmentVariables">>)
  /\ UNCHANGED <<issued, dec, handler>>
  /\ UNCHANGED storeVars

NextFileFault ==
  \E c \in Calls :
    \/ StartEncrypt(c)
    \/ ResumeEncrypt(c)
    \/ WriteFile(c)
    \/ ResumeEncryptKdfFails(c)

SpecFileFault == InitFile /\ [][NextFileFault]_vars

(***************************************************************************)
(* The file transform run again: a second encryptEnvironmentVariables call *)
(* made when the first has settled, on the file the first has written.     *)
(***************************************************************************)
Runs == {1, 2}

\* contents of the environment file before the first run
RerunContents ==
  { Text(<< <<"A", "=", "1">>, <<>>, <<"B", "=", "2">> >>),
    Text(<< <<"K", "=">>, <<"A", "=", "x", " ", "y">> >>) }

InitRerun ==
  /\ issued = NoIssue
  /\ dec = NoDec
  /\ \E content \in RerunContents :
       files = [f \in EnvFiles |->
                  IF f = ".env.uat" THEN content
                  ELSE Text(<< <<"B", "=", "b">> >>)]
  /\ call = [c \in Runs |-> IdleCall]
  /\ handler = [envFilePath |-> "", secretKey |-> <<>>]
  /\ log = <<>>
  /\ InitStoreIdle

NextRerun ==
  \E c \in DOMAIN call : StartEncrypt(c) \/ ResumeEncrypt(c) \/ WriteFile(c)

SpecRerun == InitRerun /\ [][NextRerun]_vars

(***************************************************************************)
(* Calls without a secret key: CryptoService.encrypt and decrypt called    *)
(* with the empty string, beside the calls of the record and the file      *)
(* transform.  argon2.hash takes the empty password as it takes any other. *)
(***************************************************************************)
\* the envelope issued for value v under the empty secret key
IssuedNoKey(v, encryptionResult) ==
  [made |-> TRUE, value |-> v, key |-> <<>>, env |-> encryptionResult,
   text |-> JsonStringify(encryptionResult), err |-> "",
   trace |-> TraceOfEncrypt]

\* encryptValue(v, "")
EncryptValueNoKey ==
  /\ dec.kind = "none"
  /\ \E v \in Plaintexts, saltRnd \in randomBytes(SaltLength),
        ivRnd \in randomBytes(IvLength) :
       issued' = IssuedNoKey(v, encrypt(v, <<>>, saltRnd, ivRnd))
  /\ UNCHANGED <<dec, files, call, handler, log>>
  /\ UNCHANGED storeVars

\* decryptValue(text, "")
DecryptValueNoKey ==
  /\ issued.made
  /\ dec.kind = "none"
  /\ \E in \in DecryptInputs :
       dec' = [kind |-> in.kind, text |-> in.text, key |-> <<>>,
               field |-> in.field, pos |-> in.pos,
               res |-> decrypt(in.text, <<>>)]
  /\ UNCHANGED <<issued, files, call, handler, log>>
  /\ UNCHANGED storeVars

\* a behaviour holds calls of the record transform or calls of the file
\* transform, with or without a secret key
NextNoKey ==
  \/ /\ \A c \in Calls : call[c].pc = "idle"
     /\ \/ NextValue
        \/ EncryptValueNoKey
        \/ DecryptValueNoKey
  \/ /\ issued = NoIssue /\ dec = NoDec
     /\ NextFile

SpecNoKey == InitValue /\ [][NextNoKey]_vars

Next ==
  \/ NextNoKey
  \/ NextRerun
  \/ NextFileFault
  \/ NextValue
  \/ NextFile
  \/ NextStore
  \/ NextConcurrent
  \/ NextGen
  \/ NextLogFault
  \/ NextKdfFault

Init ==
  \/ InitValue
  \/ InitFile
  \/ InitStore
  \/ InitConcurrent
  \/ InitGen
  \/ InitRerun

Spec == Init /\ [][Next]_vars

(***************************************************************************)
(* Properties of the record transform (checked under SpecValue).           *)
(***************************************************************************)
\* the errors parseEncryptedData fails with
MalformedErrors == {ErrRequired, ErrSyntax, ErrType, ErrMissing}

\* the last decryptValue call was given the issued envelope and its key
GenuineSameKey == dec.kind = "genuine" /\ dec.key = issued.key

\* the character a tampered input carries at the tampered position
TamperedChar ==
  dec.text[FieldOffset(issued.env, dec.field) + dec.pos]

\* the MAC decrypt recomputes for its (parseable) input
RecomputedMac ==
  LET d == parseEncryptedData(dec.text).data
  IN  generateMac(d.salt, d.iv, d.cipherText,
                  deriveKeyWithArgon2(dec.key, d.salt))

\* C1 as stated: decryptValue with key s on the serialised envelope of
\* encryptValue(v, s) returns exactly v, for every v, the empty string
\* included.
C1_RoundTripEveryPlaintext ==
  GenuineSameKey => (dec.res.ok /\ dec.res.value = issued.value)

\* C1 amended: the round trip returns exactly v for every non-empty v; for
\* the empty v decryptValue fails with the empty-result error.
C1_RoundTripNonEmpty ==
  GenuineSameKey =>
    IF issued.value # <<>>
    THEN dec.res.ok /\ dec.res.value = issued.value
    ELSE ~dec.res.ok /\ dec.res.err = ErrEmpty

C1_Witness ==
  /\ GenuineSameKey
  /\ issued.value = <<"a", "=", "b">>
  /\ dec.res.ok

\* C2 as stated: replacing any single character of the cipherText or mac
\* field by a different character makes decryptValue (original key) fail
\* with the MAC verification error.
C2_TamperFailsWithMacError ==
  (dec.kind = "tampered" /\ dec.key = issued.key) =>
    (~dec.res.ok /\ dec.res.err = ErrMac)

\* C2 amended: such a replacement always makes decryptValue fail, and no
\* plaintext is returned: with the MAC verification error when the
\* replacement is a character JSON reads as itself (every Base64 and
\* hexadecimal character); when it is a double quote, a backslash or a
\* control character, with the MAC verification error or, if the text no
\* longer parses, with the parse error of the envelope, before any key
\* derivation.
C2_TamperRejected ==
  (dec.kind = "tampered" /\ dec.key = issued.key) =>
    /\ ~dec.res.ok
    /\ dec.res.value = <<>>
    /\ TamperedChar \notin JsonSpecial => dec.res.err = ErrMac
    /\ dec.res.err # ErrMac =>
         /\ dec.res.err = ErrSyntax
         /\ dec.res.trace = <<"parseEncryptedData">>

C2_Witness ==
  /\ dec.kind = "tampered"
  /\ dec.key = issued.key
  /\ dec.field = "cipherText"
  /\ TamperedChar \notin JsonSpecial
  /\ dec.res.err = ErrMac

\* C3 as stated: decryptValue with a key s2 on the envelope of
\* encryptValue(v, s1), s1 # s2, fails and never returns v.
C3_WrongKeyRejected ==
  (dec.kind = "genuine" /\ dec.key # issued.key) =>
    (~dec.res.ok /\ dec.res.value # issued.value)

\* C4: an input that is empty, unparseable, or lacks (or has empty) one of
\* the four fields fails with the malformed-envelope error, and neither key
\* derivation nor MAC computation nor block decryption is invoked.
C4_MalformedFailsBeforeCrypto ==
  dec.kind = "malformed" =>
    /\ ~dec.res.ok
    /\ dec.res.err \in MalformedErrors
    /\ ~Includes(dec.res.trace, "deriveKeyWithArgon2")
    /\ ~Includes(dec.res.trace, "generateMac")
    /\ ~Includes(dec.res.trace, "decryptData")

C4_Witness ==
  /\ dec.kind = "malformed"
  /\ dec.res.err = ErrMissing
  /\ JsonParse(dec.text).ok
  /\ Len(JsonParse(dec.text).members) = 3
  /\ dec.res.trace = <<"parseEncryptedData">>

\* C5: block decryption is invoked only after the MAC recomputed from
\* (salt, iv, cipherText) and the derived key was compared equal to the
\* stored mac; when they differ, block decryption is not invoked and the
\* call fails.
C5_DecryptOnlyAfterMacMatch ==
  LET t == dec.res.trace
      parsed == parseEncryptedData(dec.text)
  IN  dec.kind # "none" =>
        /\ Includes(t, "decryptData") =>
             /\ parsed.ok
             /\ Includes(t, "generateMac") /\ Includes(t, "verifyMac")
             /\ IndexOf(t, "generateMac") < IndexOf(t, "verifyMac")
             /\ IndexOf(t, "verifyMac") < IndexOf(t, "decryptData")
             /\ RecomputedMac = parsed.data.mac
        /\ (parsed.ok /\ RecomputedMac # parsed.data.mac) =>
             (~Includes(t, "decryptData") /\ ~dec.res.ok)

C5_Witness ==
  /\ dec.kind = "tampered"
  /\ dec.field = "mac"
  /\ parseEncryptedData(dec.text).ok
  /\ RecomputedMac # parseEncryptedData(dec.text).data.mac
  /\ dec.res.trace = <<"parseEncryptedData", "deriveKeyWithArgon2",
                       "generateMac", "verifyMac">>

\* C6: decryptValue never returns the empty string; when block decryption
\* yields an empty result the call fails.
C6_NeverReturnsEmpty ==
  LET d == parseEncryptedData(dec.text).data
      block == decryptData(Base64Parse(d.cipherText),
                           deriveKeyWithArgon2(dec.key, d.salt),
                           Base64Parse(d.iv))
  IN  dec.kind # "none" =>
        /\ dec.res.ok => dec.res.value # <<>>
        /\ (Includes(dec.res.trace, "decryptData") /\ block.str = <<>>) =>
             ~dec.res.ok

C6_Witness ==
  /\ dec.kind = "genuine"
  /\ issued.value = <<>>
  /\ Includes(dec.res.trace, "decryptData")
  /\ ~dec.res.ok
  /\ dec.res.err = ErrEmpty

(***************************************************************************)
(* Properties of the file transform (checked under SpecFile).              *)
(***************************************************************************)
\* a line of the input, as the claims classify it
IsBlank(line) == Trim(line) = <<>>
HasEq(line) == Includes(line, "=")
IsRetained(line) == IsBlank(line) \/ HasEq(line)

\* key and value of an assignment line: the text before, and the trimmed
\* text after, the first "=" of the trimmed line
KeyOf(line) == SubSeq(Trim(line), 1, IndexOf(Trim(line), "=") - 1)
ValueOf(line) ==
  Trim(SubSeq(Trim(line), IndexOf(Trim(line), "=") + 1, Len(Trim(line))))
HasValue(line) == HasEq(line) /\ ValueOf(line) # <<>>

\* position in the output of the i-th input line, when it is retained
OutIndex(lines, i) == Cardinality({j \in 1..i : IsRetained(lines[j])})

\* the text after "<key>=" of an output line
EnvelopeText(line, out) == SubSeq(out, Len(KeyOf(line)) + 2, Len(out))

\* the call has written its file, and no later call has started
LastWritten(c) ==
  call[c].pc = "done" /\ \A d \in Calls : d > c => call[d].pc = "idle"

\* the output line o is what the claims expect for the input line
LineImage(line, out) ==
  IF IsBlank(line) THEN IsBlank(out)
  ELSE IF HasValue(line)
  THEN /\ StartsWith(out, KeyOf(line) \o <<"=">>)
       /\ parseEncryptedData(EnvelopeText(line, out)).ok
  ELSE out = line

\* C8 as stated: the output is the input line sequence with exactly the
\* non-blank lines lacking "=" removed, nothing added or reordered; a blank
\* line stays blank, an assignment with a value keeps its key and gets an
\* envelope, an assignment without a value stays as it is.
C8_OutputIsRetainedLinesInOrder ==
  \A c \in Calls :
    call[c].pc = "done" =>
      LET retained == SelectSeq(call[c].lines, IsRetained)
          out == call[c].encryptedLines
      IN  /\ Len(out) = Len(retained)
          /\ \A i \in 1..Len(retained) :
               i <= Len(out) => LineImage(retained[i], out[i])
          /\ LastWritten(c) => Split(files[call[c].path], "\n") = out

\* the diagnostics the claim expects for the lines of a file
RECURSIVE ExpectedDiagnostics(_, _)
ExpectedDiagnostics(lines, i) ==
  IF i > Len(lines) THEN <<>>
  ELSE (IF ~IsBlank(lines[i]) /\ ~HasEq(lines[i])
        THEN <<[lineNo |-> i, content |-> lines[i]]>>
        ELSE <<>>)
       \o ExpectedDiagnostics(lines, i + 1)

\* the format diagnostics a call handed to the logger
LoggedDiagnostics(c) ==
  LET entries == SelectSeq(log, LAMBDA e : e.call = c /\ e.msg = "format")
  IN  [k \in 1..Len(entries) |-> entries[k].arg[1]]

\* the loop of encryptLines has processed every line of the call
LoopFinished(c) ==
  \/ call[c].pc \in {"write", "done"}
  \/ call[c].pc = "failed" /\ call[c].err = ErrNoContent

\* C9: exactly one format diagnostic for each non-blank line without "=",
\* none for any other line, each with the 1-based position and the raw
\* content of the line; the well-formed lines of the file are still
\* emitted.
C9_OneDiagnosticPerMalformedLine ==
  \A c \in Calls :
    LoopFinished(c) =>
      /\ call[c].errors = ExpectedDiagnostics(call[c].lines, 1)
      /\ LoggedDiagnostics(c) = call[c].errors
      /\ Len(call[c].encryptedLines)
           = Len(SelectSeq(call[c].lines, IsRetained))
      /\ (\E i \in 1..Len(call[c].lines) : HasEq(call[c].lines[i]))
           => call[c].pc # "failed"
      /\ LastWritten(c) =>
           Split(files[call[c].path], "\n") = call[c].encryptedLines

C9_Witness ==
  \E c \in Calls :
    /\ call[c].pc = "done"
    /\ call[c].errors = <<[lineNo |-> 4, content |-> <<"b", "a", "d">>]>>
    /\ Len(call[c].encryptedLines) = 3
    /\ parseEncryptedData(
         EnvelopeText(call[c].lines[3], call[c].encryptedLines[3])).ok

\* C10 as stated: a line with "=" and a non-empty value is split at its
\* first "=" only: the emitted line is key=<serialised envelope>, and
\* decryptValue of that envelope with the same secret key returns the whole
\* trimmed text after the first "=", also when that text contains "=".
C10_SplitAtFirstEqualsOnly ==
  \A c \in Calls :
    call[c].pc = "done" =>
      \A i \in 1..Len(call[c].lines) :
        HasValue(call[c].lines[i]) =>
          LET line == call[c].lines[i]
              out == call[c].encryptedLines[OutIndex(call[c].lines, i)]
              res == decrypt(EnvelopeText(line, out), call[c].secretKey)
          IN  /\ StartsWith(out, KeyOf(line) \o <<"=">>)
              /\ res.ok
              /\ res.value = ValueOf(line)

\* every line of the file is empty or consists of white space only
AllBlank(lines) == \A i \in 1..Len(lines) : IsBlank(lines[i])

\* C11 as stated: every input line that is empty or consists only of white
\* space appears in the written output character for character as it was
\* in the input (a line of white space keeps its white space).
C11_BlankLinesVerbatim ==
  \A c \in Calls :
    call[c].pc = "done" =>
      \A i \in 1..Len(call[c].lines) :
        IsBlank(call[c].lines[i]) =>
          /\ OutIndex(call[c].lines, i) <= Len(call[c].encryptedLines)
          /\ call[c].encryptedLines[OutIndex(call[c].lines, i)]
               = call[c].lines[i]

\* C12: a call on a file whose lines are all blank fails in the step that
\* reads the file, with the empty-file error when its secret key was
\* accepted, without starting an encryption (no key derivation is pending)
\* and without changing any file; a failed call takes no further step.
C12_EmptyFileRejected ==
  [][\A c \in Calls :
       /\ (/\ call[c].pc = "idle"
           /\ call'[c].pc # "idle"
           /\ AllBlank(Split(files[call'[c].env], "\n")))
            => /\ call'[c].pc = "failed"
               /\ call'[c].secretKey # <<>> => call'[c].err = ErrEmptyFile
               /\ call'[c].pending = NoPending
               /\ call'[c].encryptedLines = <<>>
               /\ files' = files
       /\ call[c].pc = "failed" => call'[c] = call[c]]_vars

C12_Witness ==
  \E c \in Calls :
    /\ call[c].pc = "failed"
    /\ call[c].err = ErrEmptyFile
    /\ call[c].lines = << <<>>, <<" ">> >>
    /\ files[call[c].env] = Text(call[c].lines)

\* C13 as stated: on a file with at least one non-blank line, lines
\* without "=" never make the call fail, however many there are: the call
\* writes the rewritten file and reports the malformed lines as a batch.
C13_MalformedNeverFails ==
  \A c \in Calls :
    (call[c].lines # <<>> /\ ~AllBlank(call[c].lines)) =>
      /\ call[c].pc # "failed"
      /\ (call[c].pc = "done" /\ call[c].errors # <<>>) =>
           \E k \in 1..Len(log) :
             /\ log[k].call = c
             /\ log[k].msg = "batch"
             /\ log[k].arg = call[c].errors

(***************************************************************************)
(* Properties of the base file store.                                      *)
(***************************************************************************)
\* the lines of a content that begin with name=
NameLines(content, name) ==
  {j \in 1..Len(Split(content, "\n")) :
     StartsWith(Split(content, "\n")[j], name \o <<"=">>)}

\* the name of a line, the text before its first "=": <<>> when the line
\* has no "="
LineName(line) ==
  LET eq == {p \in 1..Len(line) : line[p] = "="}
  IN  IF eq = {} THEN <<>>
      ELSE SubSeq(line, 1, (CHOOSE p \in eq : \A q \in eq : p <= q) - 1)

\* no name has more than one name= line
NoDuplicateName(content) ==
  \A i, j \in 1..Len(Split(content, "\n")) :
    (i # j /\ LineName(Split(content, "\n")[i]) # <<>>)
      => LineName(Split(content, "\n")[i]) # LineName(Split(content, "\n")[j])

\* C14: after setValue(K, v1) followed by setValue(K, v2) the base file has
\* exactly one line beginning K= and that line is K=v2
C14_SecondSetUpdatesInPlace ==
  \A i \in 1..(Len(ops) - 1) :
    (/\ ops[i].op = "setValue" /\ ops[i + 1].op = "setValue"
     /\ ops[i].name = ops[i + 1].name)
      => \E j \in NameLines(ops[i + 1].after, ops[i].name) :
           /\ NameLines(ops[i + 1].after, ops[i].name) = {j}
           /\ Split(ops[i + 1].after, "\n")[j]
                = ops[i].name \o <<"=">> \o ops[i + 1].value

\* C15: once setValue(name, value) or generateAndStoreSecretKey(name) has
\* completed, whatever the base file held before, the next getValue(name)
\* returns the value stored
C15_GetReturnsStored ==
  \A i \in 1..(Len(ops) - 1) :
    (/\ ops[i].op \in {"setValue", "generateAndStoreSecretKey"}
     /\ ops[i].ok
     /\ ops[i + 1].op = "getValue"
     /\ ops[i + 1].name = ops[i].name)
      => /\ ops[i + 1].found
         /\ ops[i + 1].result = ops[i].value

\* C16: from a base file in which no name has more than one name= line,
\* no sequence of setValue calls leads to a file in which a name has more
\* than one
C16_AtMostOneLinePerName ==
  (/\ ops # <<>>
   /\ NoDuplicateName(ops[1].before)
   /\ \A i \in 1..Len(ops) : ops[i].op \in {"setValue", "getValue"})
    => NoDuplicateName(store.content)

\* C17: construction goes from Uninitialized to DirectoryEnsured to
\* FileEnsured to Ready, the directory existing from DirectoryEnsured on
\* and the file from FileEnsured on; no store operation happens before
\* Ready; and until Ready a base file that exists keeps its content
C17_ConstructionOrder ==
  [][/\ store'.state # store.state =>
          <<store.state, store'.state>>
            \in {<<"Uninitialized", "DirectoryEnsured">>,
                 <<"DirectoryEnsured", "FileEnsured">>,
                 <<"FileEnsured", "Ready">>}
     /\ store'.state \in {"DirectoryEnsured", "FileEnsured", "Ready"}
          => store'.dirExists
     /\ store'.state \in {"FileEnsured", "Ready"} => store'.fileExists
     /\ ops' # ops => store.state = "Ready"
     /\ store.state # "Ready" =>
          /\ ops' = ops
          /\ store.fileExists => store'.content = store.content
          /\ ~store.fileExists => store'.content = <<>>]_vars

\* a store that became Ready over a base file that existed, its content
\* as it was
C17_Witness ==
  /\ store.state = "Ready"
  /\ ops = <<>>
  /\ store.content = <<"K", "=", "1", "\n", "M", "=", "2", "\n">>

(***************************************************************************)
(* Properties of concurrent use.                                           *)
(***************************************************************************)
\* position in the log of the write of call c
WriteIndex(c) ==
  CHOOSE k \in 1..Len(log) : log[k] = LogEntry(c, "info", "writeFile", <<>>)

\* call c wrote its file and no other call wrote the same file after it
LastWriter(c) ==
  /\ call[c].pc = "done"
  /\ \A d \in DOMAIN call :
       (d # c /\ call[d].pc = "done" /\ call[d].path = call[c].path)
         => WriteIndex(d) < WriteIndex(c)

\* C18: writers of one file are not coordinated and the last write wins.
\* The base file is exactly what the writer that wrote last made of the
\* content it had read, so when two writers have read the same content the
\* name the earlier one added is absent; an environment file is exactly
\* the lines of the call that wrote it last
C18_LastWriteWins ==
  /\ \A i \in 1..Len(ops) :
       ops[i].after = updateEnvConfig(ops[i].before, ops[i].name, ops[i].value)
  /\ (writer # <<>> /\ ops # <<>>) => store.content = ops[Len(ops)].after
  /\ (/\ Len(ops) = 2
      /\ ops[2].before = ops[1].before
      /\ ops[2].name # ops[1].name
      /\ NameLines(ops[1].before, ops[1].name) = {})
       => NameLines(store.content, ops[1].name) = {}
  /\ \A c \in DOMAIN call :
       LastWriter(c) =>
         files[call[c].path] = Join(call[c].encryptedLines, "\n")

\* a lost update: both writers read the empty base file, the first wrote
\* K=1, the second wrote M=2 over it
C18_Witness ==
  /\ Len(ops) = 2
  /\ \A w \in DOMAIN writer : writer[w].pc = "done"
  /\ ops[1].before = <<>> /\ ops[2].before = <<>>
  /\ ops[1].after = <<"K", "=", "1", "\n">>
  /\ store.content = <<"M", "=", "2", "\n">>

\* C19: overlapping calls share nothing: a call encrypts each of its lines
\* with the secret key it was given and writes the environment file it
\* was given
C19_NoSharedState ==
  \A c \in DOMAIN call :
    /\ call[c].pc = "kdf" => call[c].pending.secretKey = call[c].secretKey
    /\ call[c].pc = "done" => call[c].path = call[c].env

(***************************************************************************)
(* Properties of the generators.                                           *)
(***************************************************************************)
\* C20: called with a length of zero or less, generateSalt,
\* generateIvAsBase64 and generateIvAsBuffer throw without calling
\* crypto.randomBytes and return no value
C20_NonPositiveLengthRejected ==
  \A i \in 1..Len(gen) :
    (/\ gen[i].fn \in {"generateSalt", "generateIvAsBase64",
                       "generateIvAsBuffer"}
     /\ gen[i].length <= 0)
      => /\ ~gen[i].res.ok
         /\ ~gen[i].res.drew
         /\ gen[i].res.err # ""
         /\ gen[i].res.str = <<>> /\ gen[i].res.bytes = <<>>

\* generateSalt(0) and generateIvAsBuffer(-1) have thrown
C20_Witness ==
  /\ Len(gen) = 2
  /\ gen[1].fn = "generateSalt" /\ gen[1].length = 0 /\ ~gen[1].res.ok
  /\ gen[2].fn = "generateIvAsBuffer" /\ gen[2].length = -1
  /\ ~gen[2].res.ok

\* C21: called with a length of zero or less, generateSecretKey throws the
\* invalid-length error without calling crypto.randomBytes and returns no
\* key, so no empty secret key is produced
C21_SecretKeyLengthRejected ==
  \A i \in 1..Len(gen) :
    (gen[i].fn = "generateSecretKey" /\ gen[i].length <= 0)
      => /\ ~gen[i].res.ok
         /\ ~gen[i].res.drew

(***************************************************************************)
(* Properties under a logger that throws.                                  *)
(***************************************************************************)
\* C22: the logger throwing changes no outcome: a call that fails fails
\* with the error of the operation, and a call whose write of the file
\* completed succeeds
C22_LoggerFailureHarmless ==
  [][\A c \in Calls :
       /\ call'[c].pc = "failed" =>
            call'[c].err \in {ErrKeyNotFound, ErrEmptyFile, ErrNoContent}
       /\ (call[c].pc = "write" /\ files' # files) =>
            call'[c].pc = "done"]_vars

(***************************************************************************)
(* Properties of the key derivations of a file transform.                  *)
(***************************************************************************)
\* the number of lines the loop of call c has gone past before a step
LinesPassed(cr) == IF cr.pc = "idle" THEN 0 ELSE cr.index + 1

\* C23: a call derives one key at a time, in the order of the lines, once
\* for each assignment line with a value and for no other line: a
\* derivation starts for the first line with a value the loop has not yet
\* gone past, and the loop ends only when no line with a value is left
C23_OneDerivationPerValueInOrder ==
  [][\A c \in Calls :
       /\ (call'[c].pc = "kdf" /\ call'[c] # call[c]) =>
            /\ call[c].pc \in {"idle", "kdf"}
            /\ LinesPassed(call[c]) <= call'[c].index
            /\ HasValue(call'[c].lines[call'[c].index + 1])
            /\ \A j \in (LinesPassed(call[c]) + 1)..call'[c].index :
                 ~HasValue(call'[c].lines[j])
       /\ (call'[c].pc = "write" /\ call'[c] # call[c]) =>
            \A j \in (LinesPassed(call[c]) + 1)..Len(call'[c].lines) :
              ~HasValue(call'[c].lines[j])]_vars

(***************************************************************************)
(* Properties of the key derivation of a record transform.                 *)
(***************************************************************************)
\* how many times a primitive occurs in a trace
Invocations(trace, primitive) ==
  Cardinality({k \in 1..Len(trace) : trace[k] = primitive})

\* C24: encryptValue, and decryptValue on an envelope that passes
\* validation, derive the key exactly once; when the derivation fails the
\* call fails and encryptData, generateMac, verifyMac and decryptData are
\* not invoked
C24_OneDerivationPerCall ==
  /\ issued.trace # <<>> =>
       /\ Invocations(issued.trace, "deriveKeyWithArgon2") = 1
       /\ issued.err = ErrKdf =>
            /\ ~issued.made
            /\ Invocations(issued.trace, "encryptData") = 0
            /\ Invocations(issued.trace, "generateMac") = 0
  /\ (dec.kind # "none" /\ parseEncryptedData(dec.text).ok) =>
       /\ Invocations(dec.res.trace, "deriveKeyWithArgon2") = 1
       /\ dec.res.err = ErrKdf =>
            /\ ~dec.res.ok
            /\ Invocations(dec.res.trace, "generateMac") = 0
            /\ Invocations(dec.res.trace, "verifyMac") = 0
            /\ Invocations(dec.res.trace, "decryptData") = 0

\* an envelope was issued with one derivation, and the decryptValue of it
\* failed in its derivation
C24_Witness ==
  /\ issued.made
  /\ Invocations(issued.trace, "deriveKeyWithArgon2") = 1
  /\ dec.kind = "genuine"
  /\ dec.res.err = ErrKdf

(***************************************************************************)
(* Properties of calls without a secret key.                               *)
(***************************************************************************)
\* C25: encryptFile, encryptValue and decryptValue called with an empty
\* secret key fail before a file is read or written and before a
\* cryptographic primitive is invoked
C25_EmptyKeyRejectedFirst ==
  /\ \A c \in Calls :
       (call[c].pc # "idle" /\ call[c].secretKey = <<>>) =>
         /\ call[c].pc = "failed"
         /\ call[c].err = ErrKeyNotFound
         /\ call[c].lines = <<>>
         /\ call[c].pending = NoPending
  /\ (issued # NoIssue /\ issued.key = <<>>) =>
       ~issued.made /\ issued.trace = <<>>
  /\ (dec.kind # "none" /\ dec.key = <<>>) =>
       ~dec.res.ok /\ dec.res.trace = <<>>

(***************************************************************************)
(* Further properties of the file transform.                               *)
(***************************************************************************)
\* the line has "=" and nothing but white space after it
HasNoValue(line) == HasEq(line) /\ ValueOf(line) = <<>>

\* C26: a line with "=" and nothing, or only white space, after it is
\* emitted character for character as it was read, and no encryption is
\* started for it
C26_EmptyValueLineVerbatim ==
  \A c \in Calls :
    /\ call[c].pc = "kdf" => ~HasNoValue(call[c].lines[call[c].index + 1])
    /\ call[c].pc \in {"write", "done"} =>
         \A i \in 1..Len(call[c].lines) :
           HasNoValue(call[c].lines[i]) =>
             call[c].encryptedLines[OutIndex(call[c].lines, i)]
               = call[c].lines[i]

\* a file whose first line is "K= " was rewritten, the line as it was
C26_Witness ==
  \E c \in Calls :
    /\ call[c].pc = "done"
    /\ call[c].lines[1] = <<"K", "=", " ">>
    /\ Split(files[call[c].path], "\n")[1] = <<"K", "=", " ">>
    /\ Len(call[c].encryptedLines) = 2

\* the output line carries a serialised envelope after its first "="
IsEnvelopeLine(out) ==
  /\ Includes(out, "=")
  /\ parseEncryptedData(SubSeq(out, IndexOf(out, "=") + 1, Len(out))).ok

\* the number of output lines whose value is an envelope
EnvelopeCount(encryptedLines) ==
  Cardinality({j \in 1..Len(encryptedLines) :
                 IsEnvelopeLine(encryptedLines[j])})

\* C27: the number the completion summary reports as encrypted is the
\* number of lines whose value was replaced by an envelope
C27_SummaryCountsEnvelopes ==
  \A c \in Calls :
    call[c].pc = "done" =>
      \A k \in 1..Len(log) :
        (log[k].call = c /\ log[k].msg = "summary") =>
          log[k].arg = <<EnvelopeCount(call[c].encryptedLines)>>

(***************************************************************************)
(* Further properties of the base file store.                              *)
(***************************************************************************)
\* the names getValue is asked for: those the store sets and the one the
\* base file may hold beside them
ReadNames == StoreNames \cup {<<"X">>}

\* the lines of a content that do not begin with name=
OtherLines(content, name) ==
  SelectSeq(Split(content, "\n"),
            LAMBDA line : ~StartsWith(line, name \o <<"=">>))

\* C28: setValue(name, value) changes nothing that belongs to another
\* name: getValue of every other name returns what it returned before, and
\* the lines that do not begin with name= are the same, in the same order
C28_OtherNamesUntouched ==
  \A i \in 1..Len(ops) :
    ops[i].op = "setValue" =>
      /\ \A other \in ReadNames \ {ops[i].name} :
           getKeyValue(ops[i].after, other) = getKeyValue(ops[i].before, other)
      /\ OtherLines(ops[i].after, ops[i].name)
           = OtherLines(ops[i].before, ops[i].name)

(***************************************************************************)
(* Properties of a failing file transform.                                 *)
(***************************************************************************)
\* C29: a call that fails before its write leaves the files as they were:
\* the step in which it fails changes no file, the file it had read still
\* holds the lines it read, and a file changes only in the step in which a
\* call writes and completes
C29_FailureLeavesFile ==
  [][\A c \in Calls :
       /\ (call'[c].pc = "failed" /\ call[c].pc # "failed") =>
            /\ files' = files
            /\ call'[c].lines # <<>> =>
                 Split(files'[call'[c].env], "\n") = call'[c].lines
       /\ (call'[c] # call[c] /\ call'[c].pc # "done") => files' = files]_vars

\* a call failed in the key derivation of its second value, the first
\* already encrypted, and its file is as it was read
C29_Witness ==
  \E c \in Calls :
    /\ call[c].pc = "failed"
    /\ call[c].err = ErrKdf
    /\ Len(call[c].encryptedLines) >= 1
    /\ IsEnvelopeLine(call[c].encryptedLines[1])
    /\ files[call[c].env] = Text(call[c].lines)

(***************************************************************************)
(* Properties of the file transform run again.                             *)
(***************************************************************************)
\* the second run read the file the first run wrote, with the same key
RanTwice ==
  /\ call[1].pc = "done" /\ call[2].pc = "done"
  /\ call[1].env = call[2].env
  /\ call[1].secretKey = call[2].secretKey
  /\ call[2].lines = call[1].encryptedLines

\* what two decryptValue calls make of the line the second run emitted
\* for an input line of the first run
DecryptedTwice(line, out, secretKey) ==
  decrypt(decrypt(EnvelopeText(line, out), secretKey).value, secretKey)

\* C30: after a second run on the encrypted file with the same secret
\* key, decryptValue applied to the emitted envelope and then to its
\* result returns the original value of every assignment line
C30_SecondRunLosesNothing ==
  RanTwice =>
    \A i \in 1..Len(call[1].lines) :
      HasValue(call[1].lines[i]) =>
        /\ DecryptedTwice(
             call[1].lines[i],
             call[2].encryptedLines[
               OutIndex(call[2].lines, OutIndex(call[1].lines, i))],
             call[1].secretKey).ok
        /\ DecryptedTwice(
             call[1].lines[i],
             call[2].encryptedLines[
               OutIndex(call[2].lines, OutIndex(call[1].lines, i))],
             call[1].secretKey).value = ValueOf(call[1].lines[i])

====
